---- MODULE Spec2Model ----
(***************************************************************************)
(* mdmd serve: the request pipeline of src/src/serve.rs over a small       *)
(* file tree.  Strings are sequences of bytes (0..255); paths are          *)
(* sequences of names, each name a sequence of bytes.                      *)
(***************************************************************************)
EXTENDS Integers, Sequences, FiniteSets, TLC

VARIABLES fs, backlinks, pc, req, resp,   \* the server and the tree it serves
          headings, heading_entries, slug_counter,  \* one render_markdown call
          link, rewritten, outbound,                \* one link, as renderer and indexer see it
          launch, stdin, os_ports, tailscale,       \* what the process is started in
          app_state, stdout, port, bind_log, bind_result, exit_status,
          inflight,                                 \* the requests being served
          dir_queue, file_reads,                    \* build_backlinks_index as it walks the tree
          listener, browser,                        \* the socket bound, the browser commands run
          viewer                                    \* the terminal viewer

serveVars == <<fs, backlinks, pc, req, resp>>
renderVars == <<headings, heading_entries, slug_counter, link, rewritten, outbound>>
envVars == <<launch, stdin, os_ports, tailscale>>
startVars == <<app_state, stdout, port, bind_log, bind_result, exit_status>>
procVars == <<envVars, startVars>>
connVars == <<inflight>>
viewerVars == <<viewer>>
effectVars == <<listener, browser>>
walkVars == <<dir_queue, file_reads>>
vars == <<serveVars, renderVars, procVars, connVars, walkVars, effectVars, viewerVars>>

----------------------------------------------------------------------------
(* Bounds of the model.                                                    *)

\* Longest raw request path, in segments, built over TraversalSegs.
MaxSegs == 3
\* Latest whole second a file mtime (and an If-Modified-Since date) takes.
MaxTime == 1

----------------------------------------------------------------------------
(* Bytes the code compares against.                                        *)

NUL == 0
SP == 32
DQUOTE == 34
PCT == 37
AMP == 38
STAR == 42
COMMA == 44
DOT == 46
SLASH == 47
BACKSLASH == 92

\* "0123456789abcdef": the digits of {:016x}.
HexLower == <<48, 49, 50, 51, 52, 53, 54, 55, 56, 57, 97, 98, 99, 100, 101, 102>>

Last(s) == s[Len(s)]
Front(s) == SubSeq(s, 1, Len(s) - 1)

RECURSIVE Concat(_)
Concat(ss) == IF ss = <<>> THEN <<>> ELSE Head(ss) \o Concat(Tail(ss))

\* s.starts_with(p) on sequences (bytes of a string, or components of a path).
StartsWith(s, p) == Len(p) <= Len(s) /\ SubSeq(s, 1, Len(p)) = p

\* str::split(sep): the pieces between separators, empty pieces kept.
RECURSIVE SplitFrom(_, _, _, _)
SplitFrom(s, sep, i, cur) ==
    IF i > Len(s) THEN <<cur>>
    ELSE IF s[i] = sep THEN <<cur>> \o SplitFrom(s, sep, i + 1, <<>>)
    ELSE SplitFrom(s, sep, i + 1, Append(cur, s[i]))

Split(s, sep) == SplitFrom(s, sep, 1, <<>>)

\* The pieces joined by `sep` (PathBuf::push of relative names, then display).
RECURSIVE Join(_, _)
Join(parts, sep) ==
    IF parts = <<>> THEN <<>>
    ELSE IF Len(parts) = 1 THEN parts[1]
    ELSE parts[1] \o <<sep>> \o Join(Tail(parts), sep)

\* u8::to_ascii_lowercase / str::to_lowercase on ASCII.
LowerByte(b) == IF b >= 65 /\ b <= 90 THEN b + 32 ELSE b

Lower(s) == [i \in 1..Len(s) |-> LowerByte(s[i])]

\* str::trim on the ASCII space.
RECURSIVE TrimStart(_)
TrimStart(s) == IF s # <<>> /\ Head(s) = SP THEN TrimStart(Tail(s)) ELSE s

RECURSIVE TrimEnd(_)
TrimEnd(s) == IF s # <<>> /\ Last(s) = SP THEN TrimEnd(Front(s)) ELSE s

Trim(s) == TrimEnd(TrimStart(s))

\* Decimal digits of n ({} of an integer).
RECURSIVE Decimal(_)
Decimal(n) == IF n < 10 THEN <<48 + n>> ELSE Decimal(n \div 10) \o <<48 + (n % 10)>>

----------------------------------------------------------------------------
(* Cache validators.                                                       *)

RECURSIVE Xor(_, _, _)
Xor(a, b, bits) ==
    IF bits = 0 THEN 0
    ELSE ((a + b) % 2) + 2 * Xor(a \div 2, b \div 2, bits - 1)

\* 64-bit values as 4 little-endian limbs of 16 bits.
FNV_PRIME == <<435, 0, 256, 0>>
FNV_OFFSET_BASIS == <<8997, 33826, 40164, 52210>>

\* u64::wrapping_mul, by columns with the limbs above 2^64 dropped.  The
\* limbs of b are those of FNV_PRIME, so no column exceeds 2^31.
wrapping_mul(a, b) ==
    LET t1 == a[1] * b[1]
        t2 == a[1] * b[2] + a[2] * b[1] + (t1 \div 65536)
        t3 == a[1] * b[3] + a[2] * b[2] + a[3] * b[1] + (t2 \div 65536)
        t4 == a[1] * b[4] + a[2] * b[3] + a[3] * b[2] + a[4] * b[1] + (t3 \div 65536)
    IN  <<t1 % 65536, t2 % 65536, t3 % 65536, t4 % 65536>>

\* hash ^= byte as u64
XorByte(hash, byte) ==
    [hash EXCEPT ![1] = 256 * (@ \div 256) + Xor(@ % 256, byte, 8)]

\* The loop `for &byte in data` over data[lo..hi], taken by halves; a u64
\* has 4 limbs, and testing that has TLC finish the left half before it
\* starts on the right one.
RECURSIVE FnvFrom(_, _, _, _)
FnvFrom(data, lo, hi, hash) ==
    IF lo > hi THEN hash
    ELSE IF lo = hi THEN wrapping_mul(XorByte(hash, data[lo]), FNV_PRIME)
    ELSE LET mid == (lo + hi) \div 2
             left == FnvFrom(data, lo, mid, hash)
         IN  IF Len(left) = 4 THEN FnvFrom(data, mid + 1, hi, left) ELSE left

fnv1a_64(data) == FnvFrom(data, 1, Len(data), FNV_OFFSET_BASIS)

\* {:016x}: sixteen lowercase hex digits, most significant first.
Hex4(limb) ==
    <<HexLower[(limb \div 4096) + 1], HexLower[((limb \div 256) % 16) + 1],
      HexLower[((limb \div 16) % 16) + 1], HexLower[(limb % 16) + 1]>>

Hex016(h) == Hex4(h[4]) \o Hex4(h[3]) \o Hex4(h[2]) \o Hex4(h[1])

compute_etag(data) == <<DQUOTE>> \o Hex016(fnv1a_64(data)) \o <<DQUOTE>>

----------------------------------------------------------------------------
(* Time: a SystemTime is whole seconds since the epoch plus nanoseconds;   *)
(* an HTTP-date carries whole seconds only.                                *)

Time(secs, nanos) == [secs |-> secs, nanos |-> nanos]

UNIX_EPOCH == Time(0, 0)

TimeLE(a, b) == a.secs < b.secs \/ (a.secs = b.secs /\ a.nanos <= b.nanos)

\* An absent header, and the values a date header can take on the wire.
NoHeader == [some |-> FALSE, kind |-> "none", secs |-> 0, val |-> <<>>]
DateHeader(secs) == [some |-> TRUE, kind |-> "date", secs |-> secs, val |-> <<>>]
GarbageHeader == [some |-> TRUE, kind |-> "garbage", secs |-> 0, val |-> <<>>]
TagHeader(val) == [some |-> TRUE, kind |-> "tags", secs |-> 0, val |-> val]

\* httpdate::fmt_http_date: the sub-second part is dropped.
format_http_date(t) == DateHeader(t.secs)

\* httpdate::parse_http_date(s).ok()
parse_http_date(h) ==
    IF h.kind = "date" THEN [ok |-> TRUE, time |-> Time(h.secs, 0)]
    ELSE [ok |-> FALSE, time |-> UNIX_EPOCH]

etag_matches(if_none_match, etag) ==
    LET trimmed == Trim(if_none_match)
        list == Split(trimmed, COMMA)
    IN  IF trimmed = <<STAR>> THEN TRUE
        ELSE \E i \in 1..Len(list) : Trim(list[i]) = etag

\* not_modified_since without the truncation of mtime to whole seconds: a
\* file written within the second the client's date names would never
\* validate.  C7's formula is violated under this variant.
not_modified_since_untruncated(ims_header, mtime) ==
    LET parsed == parse_http_date(ims_header)
    IN  IF parsed.ok THEN TimeLE(mtime, parsed.time) ELSE FALSE

not_modified_since(ims_header, mtime) ==
    LET parsed == parse_http_date(ims_header)
        mtime_secs == Time(mtime.secs, 0)
    IN  IF parsed.ok THEN TimeLE(mtime_secs, parsed.time) ELSE FALSE

----------------------------------------------------------------------------
(* Path resolution helpers.                                                *)

\* Err(()) is -1.
hex_digit(b) ==
    IF b >= 48 /\ b <= 57 THEN b - 48
    ELSE IF b >= 97 /\ b <= 102 THEN b - 97 + 10
    ELSE IF b >= 65 /\ b <= 70 THEN b - 65 + 10
    ELSE -1

IsCont(s, i) == i <= Len(s) /\ s[i] >= 128 /\ s[i] <= 191
InRange(s, i, lo, hi) == i <= Len(s) /\ s[i] >= lo /\ s[i] <= hi

\* String::from_utf8: well-formed UTF-8 byte sequences only.
RECURSIVE Utf8From(_, _)
Utf8From(s, i) ==
    IF i > Len(s) THEN TRUE
    ELSE LET b == s[i] IN
      IF b < 128
      THEN LET rest == {j \in i..Len(s) : s[j] >= 128}
           IN  rest = {} \/ Utf8From(s, CHOOSE j \in rest : \A k \in rest : j <= k)
      ELSE IF b >= 194 /\ b <= 223 THEN IsCont(s, i + 1) /\ Utf8From(s, i + 2)
      ELSE IF b = 224 THEN InRange(s, i + 1, 160, 191) /\ IsCont(s, i + 2) /\ Utf8From(s, i + 3)
      ELSE IF b = 237 THEN InRange(s, i + 1, 128, 159) /\ IsCont(s, i + 2) /\ Utf8From(s, i + 3)
      ELSE IF b >= 225 /\ b <= 239 THEN IsCont(s, i + 1) /\ IsCont(s, i + 2) /\ Utf8From(s, i + 3)
      ELSE IF b = 240 THEN InRange(s, i + 1, 144, 191) /\ IsCont(s, i + 2) /\ IsCont(s, i + 3) /\ Utf8From(s, i + 4)
      ELSE IF b >= 241 /\ b <= 243 THEN IsCont(s, i + 1) /\ IsCont(s, i + 2) /\ IsCont(s, i + 3) /\ Utf8From(s, i + 4)
      ELSE IF b = 244 THEN InRange(s, i + 1, 128, 143) /\ IsCont(s, i + 2) /\ IsCont(s, i + 3) /\ Utf8From(s, i + 4)
      ELSE FALSE

from_utf8_ok(s) == Utf8From(s, 1)

DecodeErr == [ok |-> FALSE, val |-> <<>>]

\* i is the 1-based position of bytes[i0] with i0 = i - 1; the code's
\* `i0 + 2 >= len` reads `i + 1 >= Len`.
RECURSIVE DecodeFrom(_, _, _)
DecodeFrom(bytes, i, out) ==
    IF i > Len(bytes)
    THEN (IF from_utf8_ok(out) THEN [ok |-> TRUE, val |-> out] ELSE DecodeErr)
    ELSE IF bytes[i] = PCT
    THEN IF i + 1 >= Len(bytes) THEN DecodeErr
         ELSE LET hi == hex_digit(bytes[i + 1])
                  lo == hex_digit(bytes[i + 2])
              IN  IF hi < 0 \/ lo < 0 THEN DecodeErr
                  ELSE DecodeFrom(bytes, i + 3, Append(out, hi * 16 + lo))
    ELSE DecodeFrom(bytes, i + 1, Append(out, bytes[i]))

percent_decode(encoded) == DecodeFrom(encoded, 1, <<>>)

\* parts.pop()? on an empty stack is the None of normalize_path.
RECURSIVE NormalizeFrom(_, _, _)
NormalizeFrom(comps, i, parts) ==
    IF i > Len(comps) THEN [ok |-> TRUE, parts |-> parts]
    ELSE LET component == comps[i] IN
      IF component = <<>> \/ component = <<DOT>>
      THEN NormalizeFrom(comps, i + 1, parts)
      ELSE IF component = <<DOT, DOT>>
      THEN IF parts = <<>> THEN [ok |-> FALSE, parts |-> <<>>]
           ELSE NormalizeFrom(comps, i + 1, Front(parts))
      ELSE NormalizeFrom(comps, i + 1, Append(parts, component))

\* normalize_path clamping `..` at the root instead of rejecting it, as a
\* lexical path cleaner does.  C2's formula is violated under this variant.
normalize_path_clamped(decoded) ==
    LET comps == Split(decoded, SLASH)
        RECURSIVE Clamp(_, _)
        Clamp(i, parts) ==
            IF i > Len(comps) THEN [ok |-> TRUE, parts |-> parts]
            ELSE IF comps[i] = <<>> \/ comps[i] = <<DOT>> THEN Clamp(i + 1, parts)
            ELSE IF comps[i] = <<DOT, DOT>>
            THEN Clamp(i + 1, IF parts = <<>> THEN parts ELSE Front(parts))
            ELSE Clamp(i + 1, Append(parts, comps[i]))
    IN  Clamp(1, <<>>)

normalize_path(decoded) == NormalizeFrom(Split(decoded, SLASH), 1, <<>>)

\* PathBuf::display of a relative path made of pushed names.
Display(parts) == Join(parts, SLASH)

IsUnreserved(b) ==
    \/ (b >= 48 /\ b <= 57) \/ (b >= 65 /\ b <= 90) \/ (b >= 97 /\ b <= 122)
    \/ b \in {45, 95, 46, 126}

\* "0123456789ABCDEF"
HexUpper == <<48, 49, 50, 51, 52, 53, 54, 55, 56, 57, 65, 66, 67, 68, 69, 70>>

RECURSIVE percent_encode_segment(_)
percent_encode_segment(s) ==
    IF s = <<>> THEN <<>>
    ELSE (IF IsUnreserved(Head(s)) THEN <<Head(s)>>
          ELSE <<PCT, HexUpper[(Head(s) \div 16) + 1], HexUpper[(Head(s) % 16) + 1]>>)
         \o percent_encode_segment(Tail(s))

\* Position of the last DOT of a name, 0 when it has none.
RECURSIVE LastDot(_, _)
LastDot(name, i) ==
    IF i = 0 THEN 0 ELSE IF name[i] = DOT THEN i ELSE LastDot(name, i - 1)

\* Path::extension of a path whose last component is `name`:
\* [some |-> FALSE] without a dot, or with the only dot in front.
Extension(name) ==
    LET k == LastDot(name, Len(name))
    IN  IF name = <<DOT, DOT>> \/ k <= 1 THEN [some |-> FALSE, ext |-> <<>>]
        ELSE [some |-> TRUE, ext |-> SubSeq(name, k + 1, Len(name))]

EXT_md == <<109, 100>>

\* Path::with_extension("md") of a path that has no extension.
with_extension_md(path) == Front(path) \o <<Last(path) \o <<DOT>> \o EXT_md>>

mime_for_ext(ext) ==
    LET e == Lower(ext) IN
    IF e \in {EXT_md, <<104, 116, 109, 108>>, <<104, 116, 109>>} THEN "text/html; charset=utf-8"
    ELSE IF e = <<99, 115, 115>> THEN "text/css"
    ELSE IF e = <<106, 115>> THEN "text/javascript"
    ELSE IF e = <<112, 110, 103>> THEN "image/png"
    ELSE IF e \in {<<106, 112, 103>>, <<106, 112, 101, 103>>} THEN "image/jpeg"
    ELSE IF e = <<115, 118, 103>> THEN "image/svg+xml"
    ELSE IF e = <<103, 105, 102>> THEN "image/gif"
    ELSE IF e = <<105, 99, 111>> THEN "image/x-icon"
    ELSE IF e = <<119, 111, 102, 102, 50>> THEN "font/woff2"
    ELSE IF e = <<112, 100, 102>> THEN "application/pdf"
    ELSE "application/octet-stream"

\* "raw=1"
RAW_PARAM == <<114, 97, 119, 61, 49>>

is_raw_mode(query) ==
    LET params == Split(query, AMP) IN \E i \in 1..Len(params) : params[i] = RAW_PARAM

\* The key without its leading slash.  C10's formula is violated under this
\* variant.
url_key_from_rel_path_bare(rel) == rel

url_key_from_rel_path(rel) == <<SLASH>> \o rel

----------------------------------------------------------------------------
(* The file tree.  A path is the sequence of its names from "/"; fs maps   *)
(* every existing path to its node.  Symlink targets are absolute.         *)

\* Most symlinks canonicalize follows before it gives up (ELOOP).
MaxHops == 2

MAX_FILE_SIZE == 16 * 1024 * 1024

\* "srv"
N_srv == <<115, 114, 118>>
\* "out"
N_out == <<111, 117, 116>>
\* "a"
N_a == <<97>>
\* "a.md"
N_a_md == <<97, 46, 109, 100>>
\* "b"
N_b == <<98>>
\* "b.md"
N_b_md == <<98, 46, 109, 100>>
\* "c c.md"
N_c_c_md == <<99, 32, 99, 46, 109, 100>>
\* "d"
N_d == <<100>>
\* "e"
N_e == <<101>>
\* "f"
N_f == <<102>>
\* "f.md"
N_f_md == <<102, 46, 109, 100>>
\* "g.bin"
N_g_bin == <<103, 46, 98, 105, 110>>
\* ".h"
N_dot_h == <<46, 104>>
\* "m"
N_m == <<109>>
\* "h.md"
N_h_md == <<104, 46, 109, 100>>
\* "i.md"
N_i_md == <<105, 46, 109, 100>>
\* "u.md"
N_u_md == <<117, 46, 109, 100>>
\* "v"
N_v == <<118>>
\* "w"
N_w == <<119>>
\* "x"
N_x == <<120>>
\* "x.md"
N_x_md == <<120, 46, 109, 100>>
\* "y"
N_y == <<121>>
\* "z"
N_z == <<122>>
\* "p.md"
N_p_md == <<112, 46, 109, 100>>
\* "q"
N_q == <<113>>
\* "k"
N_k == <<107>>
\* "README.md"
N_README_md == <<82, 69, 65, 68, 77, 69, 46, 109, 100>>
\* "index.md"
N_index_md == <<105, 110, 100, 101, 120, 46, 109, 100>>

FileNode(data, size, mtime) ==
    [kind |-> "file", target |-> <<>>, size |-> size, mtime |-> mtime, data |-> data]
DirNode ==
    [kind |-> "dir", target |-> <<>>, size |-> 0, mtime |-> UNIX_EPOCH, data |-> <<>>]
LinkNode(target) ==
    [kind |-> "symlink", target |-> target, size |-> 0, mtime |-> UNIX_EPOCH, data |-> <<>>]

canonical_root == <<N_srv>>
serve_root == canonical_root
OutsideDir == <<N_out>>

\* What the tracked part of a file's content can be.
DataVariants == {<<104, 105>>, <<104, 111>>}

InitialTree ==
    (<<>> :> DirNode)
    @@ (canonical_root :> DirNode)
    @@ (canonical_root \o <<N_a_md>> :> FileNode(<<104, 105>>, 2, Time(1, 0)))
    @@ (canonical_root \o <<N_b>> :> FileNode(<<98, 98>>, 2, Time(1, 1)))
    @@ (canonical_root \o <<N_b_md>> :> FileNode(<<91, 115, 93, 40, 98, 46, 109, 100, 41>>, 9, Time(1, 0)))
    @@ (canonical_root \o <<N_c_c_md>> :> FileNode(<<91, 120, 93, 40, 47, 97, 46, 109, 100, 35, 115, 41>>, 12, Time(2, 0)))
    @@ (canonical_root \o <<N_d>> :> DirNode)
    @@ (canonical_root \o <<N_d, N_README_md>> :> FileNode(<<91, 97, 93, 40, 46, 46, 47, 97, 46, 109, 100, 41>>, 12, Time(1, 1)))
    @@ (canonical_root \o <<N_d, N_index_md>> :> FileNode(<<100, 105>>, 2, Time(1, 0)))
    @@ (canonical_root \o <<N_e>> :> DirNode)
    @@ (canonical_root \o <<N_e, N_index_md>> :> FileNode(<<91, 111, 93, 40, 46, 46, 47, 46, 46, 47, 111, 46, 109, 100, 41>>, 15, Time(0, 1)))
    @@ (canonical_root \o <<N_f>> :> DirNode)
    @@ (canonical_root \o <<N_f, N_g_bin>> :> FileNode(<<103>>, 1, Time(1, 0)))
    @@ (canonical_root \o <<N_f, N_dot_h>> :> FileNode(<<104>>, 1, Time(1, 0)))
    @@ (canonical_root \o <<N_f, N_m>> :> LinkNode(OutsideDir \o <<N_p_md>>))
    @@ (canonical_root \o <<N_f_md>> :> FileNode(<<102, 109>>, 2, Time(1, 0)))
    @@ (canonical_root \o <<N_h_md>> :> FileNode(<<72>>, MAX_FILE_SIZE, Time(1, 0)))
    @@ (canonical_root \o <<N_i_md>> :> FileNode(<<73>>, MAX_FILE_SIZE + 1, Time(1, 0)))
    @@ (canonical_root \o <<N_u_md>> :> FileNode(<<255>>, 1, Time(1, 0)))
    @@ (canonical_root \o <<N_v>> :> LinkNode(canonical_root \o <<N_d>>))
    @@ (canonical_root \o <<N_w>> :> LinkNode(OutsideDir \o <<N_q>>))
    @@ (canonical_root \o <<N_x_md>> :> LinkNode(OutsideDir \o <<N_p_md>>))
    @@ (canonical_root \o <<N_y>> :> LinkNode(OutsideDir))
    @@ (OutsideDir :> DirNode)
    @@ (OutsideDir \o <<N_p_md>> :> FileNode(<<80>>, 1, Time(1, 0)))
    @@ (OutsideDir \o <<N_README_md>> :> FileNode(<<82>>, 1, Time(1, 0)))
    @@ (OutsideDir \o <<N_q>> :> DirNode)
    @@ (OutsideDir \o <<N_q, N_k>> :> FileNode(<<75>>, 1, Time(1, 0)))

\* Files another process rewrites while the server runs.
MutableFiles == {canonical_root \o <<N_a_md>>}

Times == {Time(s, n) : s \in 0..MaxTime, n \in 0..1}

FsErr == [ok |-> FALSE, path |-> <<>>]

\* fs::canonicalize: `cur` is the canonical directory reached so far.
RECURSIVE Walk(_, _, _, _)
Walk(f, cur, rest, hops) ==
    IF rest = <<>> THEN [ok |-> TRUE, path |-> cur]
    ELSE LET next == Append(cur, Head(rest)) IN
      IF next \notin DOMAIN f THEN FsErr
      ELSE IF f[next].kind = "symlink"
      THEN (IF hops = 0 THEN FsErr
            ELSE Walk(f, <<>>, f[next].target \o Tail(rest), hops - 1))
      ELSE IF f[next].kind = "dir" THEN Walk(f, next, Tail(rest), hops)
      ELSE IF Tail(rest) = <<>> THEN [ok |-> TRUE, path |-> next]
      ELSE FsErr

Canonicalize(f, path) == Walk(f, <<>>, path, MaxHops)

\* fs::metadata: the node the path leads to, symlinks followed.
Metadata(f, path) ==
    LET c == Canonicalize(f, path)
    IN  IF c.ok THEN [ok |-> TRUE, node |-> f[c.path]] ELSE [ok |-> FALSE, node |-> DirNode]

IsFile(f, path) == LET m == Metadata(f, path) IN m.ok /\ m.node.kind = "file"
IsDir(f, path) == LET m == Metadata(f, path) IN m.ok /\ m.node.kind = "dir"

\* fs::read_dir: the names in a directory (in no particular order).
ReadDir(f, dir_path) ==
    LET c == Canonicalize(f, dir_path)
    IN  IF c.ok /\ f[c.path].kind = "dir"
        THEN [ok |-> TRUE, dir |-> c.path,
              names |-> {Last(p) : p \in {q \in DOMAIN f : q # <<>> /\ Front(q) = c.path}}]
        ELSE [ok |-> FALSE, dir |-> <<>>, names |-> {}]

----------------------------------------------------------------------------
(* Response bodies are sequences of parts: literal text of the template,   *)
(* or a value put into it (`esc` tells whether it was HTML-escaped).       *)

Part(src, esc, bytes) == [src |-> src, esc |-> esc, bytes |-> bytes]
Lit(bytes) == Part("lit", FALSE, bytes)

RECURSIVE BodyBytes(_)
BodyBytes(body) ==
    IF body = <<>> THEN <<>> ELSE Head(body).bytes \o BodyBytes(Tail(body))

RECURSIVE html_escape_text(_)
html_escape_text(s) ==
    IF s = <<>> THEN <<>>
    ELSE (IF Head(s) = 60 THEN <<38, 108, 116, 59>>
          ELSE IF Head(s) = 62 THEN <<38, 103, 116, 59>>
          ELSE IF Head(s) = AMP THEN <<38, 97, 109, 112, 59>>
          ELSE IF Head(s) = DQUOTE THEN <<38, 113, 117, 111, 116, 59>>
          ELSE <<Head(s)>>) \o html_escape_text(Tail(s))

RECURSIVE html_escape(_)
html_escape(s) ==
    IF s = <<>> THEN <<>>
    ELSE (IF Head(s) = AMP THEN <<38, 97, 109, 112, 59>>
          ELSE IF Head(s) = 60 THEN <<38, 108, 116, 59>>
          ELSE IF Head(s) = 62 THEN <<38, 103, 116, 59>>
          ELSE IF Head(s) = DQUOTE THEN <<38, 113, 117, 111, 116, 59>>
          ELSE IF Head(s) = 39 THEN <<38, 35, 51, 57, 59>>
          ELSE <<Head(s)>>) \o html_escape(Tail(s))

\* What a handler logs about the request it answered ([resolve], [request],
\* [backlinks] lines), kept with the response.
Log(mode, branch, reason, resolved, key) ==
    [mode |-> mode, branch |-> branch, reason |-> reason, resolved |-> resolved, key |-> key]

NoLog == Log("", "", "", <<>>, <<>>)

\* A header that is not set: content_type "", etag <<>>, last_modified NoHeader.
Response(status, content_type, nosniff, etag, last_modified, body, log) ==
    [status |-> status, content_type |-> content_type, nosniff |-> nosniff,
     etag |-> etag, last_modified |-> last_modified, body |-> body, log |-> log]

WithLog(response, log) == [response EXCEPT !.log = log]

not_modified_response(etag, last_modified) ==
    Response(304, "", FALSE, etag, last_modified, <<>>, NoLog)

not_found_response ==
    Response(404, "text/plain; charset=utf-8", TRUE, <<>>, NoHeader,
             <<Lit(<<78, 111, 116, 32, 70, 111, 117, 110, 100>>)>>, NoLog)

too_large_response(norm_path, size) ==
    Response(413, "text/plain; charset=utf-8", TRUE, <<>>, NoHeader,
             <<Lit(<<67, 111, 110, 116, 101, 110, 116, 32, 84, 111, 111, 32, 76, 97, 114, 103, 101, 58, 32>>), Part("request-path", FALSE, norm_path),
               Lit(<<32, 40>>), Part("num", FALSE, Decimal(size)),
               Lit(<<32, 98, 121, 116, 101, 115, 32, 101, 120, 99, 101, 101, 100, 115, 32>>), Part("num", FALSE, Decimal(MAX_FILE_SIZE)),
               Lit(<<32, 98, 121, 116, 101, 32, 108, 105, 109, 105, 116, 41>>)>>,
             NoLog)

\* The vlog! line of a denied branch, then the terse response; in
\* Denied_verbose the path of the log line is sent to the client as well,
\* and C3's formula is violated under that variant.  `branch` is
\* what resolve_candidate had returned ("" when the denial came before it).
Denied_verbose(branch, reason, resolved) ==
    Response(404, "text/plain; charset=utf-8", TRUE, <<>>, NoHeader,
             <<Lit(<<78, 111, 116, 32, 70, 111, 117, 110, 100, 58, 32>>), Part("fs-path", FALSE, Display(resolved))>>,
             Log("denied", branch, reason, resolved, <<>>))

Denied(branch, reason, resolved) ==
    WithLog(not_found_response, Log("denied", branch, reason, resolved, <<>>))

----------------------------------------------------------------------------
(* Directory listing.                                                      *)

RECURSIVE BytesLess(_, _)
BytesLess(a, b) ==
    IF b = <<>> THEN FALSE
    ELSE IF a = <<>> THEN TRUE
    ELSE IF Head(a) # Head(b) THEN Head(a) < Head(b)
    ELSE BytesLess(Tail(a), Tail(b))

\* The sort_by comparator: directories first, then case-insensitive names.
EntryBefore(x, y) ==
    IF x.is_dir /\ ~y.is_dir THEN TRUE
    ELSE IF ~x.is_dir /\ y.is_dir THEN FALSE
    ELSE BytesLess(Lower(x.name), Lower(y.name))

RECURSIVE SortEntries(_)
SortEntries(S) ==
    IF S = {} THEN <<>>
    ELSE LET first == CHOOSE x \in S : \A y \in S \ {x} : ~EntryBefore(y, x)
         IN  <<first>> \o SortEntries(S \ {first})

apply_dir_listing_policy(entries) ==
    SortEntries({e \in entries : Head(e.name) # DOT})

\* The loop over read_dir shared by the directory index and the rich 404:
\* dotfiles and out-of-root symlinks are skipped.
RawEntries(f, dir_path) ==
    LET rd == ReadDir(f, dir_path)
        Kept(name) ==
            /\ Head(name) # DOT
            /\ (f[Append(rd.dir, name)].kind = "symlink" =>
                  LET target == Canonicalize(f, Append(dir_path, name))
                  IN  target.ok /\ StartsWith(target.path, canonical_root))
            /\ Metadata(f, Append(dir_path, name)).ok
    IN  {[name |-> n, is_dir |-> IsDir(f, Append(dir_path, n))] :
            n \in {m \in rd.names : Kept(m)}}

ListingBase(url_prefix) ==
    IF Last(url_prefix) = SLASH THEN url_prefix ELSE Append(url_prefix, SLASH)

EntryHref(base, e) ==
    base \o percent_encode_segment(e.name) \o (IF e.is_dir THEN <<SLASH>> ELSE <<>>)

RECURSIVE CrumbsFrom(_, _, _)
CrumbsFrom(segments, i, href) ==
    IF i > Len(segments) THEN <<>>
    ELSE LET h == href \o <<SLASH>> \o percent_encode_segment(segments[i])
         IN  <<Part("href", FALSE, Append(h, SLASH)), Part("request-path", FALSE, segments[i])>>
             \o CrumbsFrom(segments, i + 1, h)

build_breadcrumbs(url_prefix) ==
    <<Lit(<<47>>)>> \o CrumbsFrom(SelectSeq(Split(url_prefix, SLASH), LAMBDA s : s # <<>>), 1, <<>>)

RECURSIVE IndexItems(_, _, _)
IndexItems(entries, i, base) ==
    IF i > Len(entries) THEN <<>>
    ELSE <<Part("href", FALSE, EntryHref(base, entries[i])),
           Part("fs-name", FALSE, entries[i].name)>> \o IndexItems(entries, i + 1, base)

render_directory_index_response(f, dir_path, url_prefix) ==
    IF ~ReadDir(f, dir_path).ok
    THEN Denied("dir-index", "cannot-read-dir", dir_path)
    ELSE LET entries == apply_dir_listing_policy(RawEntries(f, dir_path))
             body == <<Lit(<<73, 110, 100, 101, 120, 32, 111, 102, 32>>), Part("request-path", FALSE, url_prefix)>>
                     \o build_breadcrumbs(url_prefix)
                     \o <<Part("request-path", FALSE, url_prefix)>>
                     \o IndexItems(entries, 1, ListingBase(url_prefix))
         IN  Response(200, "text/html; charset=utf-8", TRUE, compute_etag(BodyBytes(body)),
                      NoHeader, body, Log("directory_index", "dir-index", "", dir_path, <<>>))

----------------------------------------------------------------------------
(* Rich 404.                                                               *)

\* The walk upward from serve_root.join(norm_display).
\* The walk without its containment check.
RECURSIVE NearestFrom_unconfined(_, _)
NearestFrom_unconfined(f, candidate) ==
    IF candidate = <<>> THEN canonical_root
    ELSE LET parent == Front(candidate)
             canon == Canonicalize(f, parent)
         IN  IF IsDir(f, parent) /\ canon.ok
             THEN canon.path
             ELSE NearestFrom_unconfined(f, parent)

RECURSIVE NearestFrom(_, _)
NearestFrom(f, candidate) ==
    IF candidate = <<>> THEN canonical_root
    ELSE LET parent == Front(candidate)
             canon == Canonicalize(f, parent)
         IN  IF IsDir(f, parent) /\ canon.ok /\ StartsWith(canon.path, canonical_root)
             THEN canon.path
             ELSE NearestFrom(f, parent)

nearest_existing_parent(f, norm_parts) == NearestFrom(f, serve_root \o norm_parts)

EncodeAll(parts) == [i \in 1..Len(parts) |-> percent_encode_segment(parts[i])]

derive_entry_url_path(entry_file, root) ==
    IF StartsWith(entry_file, root)
    THEN [ok |-> TRUE,
          val |-> <<SLASH>> \o Join(EncodeAll(SubSeq(entry_file, Len(root) + 1, Len(entry_file))), SLASH)]
    ELSE [ok |-> FALSE, val |-> <<>>]

entry_file == canonical_root \o <<N_a_md>>
entry_url_path == derive_entry_url_path(entry_file, canonical_root).val

RECURSIVE ParentItems(_, _, _)
ParentItems(entries, i, base) ==
    IF i > Len(entries) THEN <<>>
    ELSE <<Part("href", TRUE, html_escape_text(EntryHref(base, entries[i]))),
           Part("fs-name", TRUE, html_escape_text(entries[i].name))>>
         \o ParentItems(entries, i + 1, base)

build_nearest_parent_listing(f, dir_path, url_prefix) ==
    LET entries == apply_dir_listing_policy(RawEntries(f, dir_path))
    IN  IF ~ReadDir(f, dir_path).ok \/ entries = <<>> THEN <<>>
        ELSE <<Part("href", TRUE, html_escape_text(url_prefix))>>
             \o ParentItems(entries, 1, ListingBase(url_prefix))

rich_not_found_response(f, norm_parts) ==
    LET requested_path == <<SLASH>> \o Display(norm_parts)
        nearest_parent == nearest_existing_parent(f, norm_parts)
        derived == derive_entry_url_path(nearest_parent, canonical_root)
        url0 == IF derived.ok THEN derived.val ELSE <<SLASH>>
        parent_url == IF url0 = <<SLASH>> THEN <<SLASH>> ELSE Append(url0, SLASH)
        body == <<Lit(<<52, 48, 52, 32, 78, 111, 116, 32, 70, 111, 117, 110, 100>>),
                  Part("request-path", TRUE, html_escape_text(requested_path)),
                  Part("href", TRUE, html_escape_text(entry_url_path)),
                  Part("href", TRUE, html_escape_text(parent_url)),
                  Part("href", TRUE, html_escape_text(parent_url))>>
                \o build_nearest_parent_listing(f, nearest_parent, parent_url)
    IN  Response(404, "text/html; charset=utf-8", TRUE, <<>>, NoHeader, body,
                 Log("rich_404", "not-found", "", <<>>, <<>>))

----------------------------------------------------------------------------
(* The backlinks index built once at startup (backlinks.rs).               *)

\* "markdown"
EXT_markdown == <<109, 97, 114, 107, 100, 111, 119, 110>>

SkippedDirs == {<<46, 103, 105, 116>>, <<110, 111, 100, 101, 95, 109, 111, 100, 117, 108, 101, 115>>, <<46, 106, 106>>}

ExternalSchemes == {<<104, 116, 116, 112, 58>>, <<104, 116, 116, 112, 115, 58>>, <<109, 97, 105, 108, 116, 111, 58>>, <<102, 116, 112, 58>>}

Range(s) == {s[i] : i \in 1..Len(s)}

MinOf(S) == CHOOSE x \in S : \A y \in S : x <= y
MaxOf(S) == CHOOSE x \in S : \A y \in S : x >= y

\* The first index at or after i that holds b, 0 without one.
FindByte(s, i, b) ==
    LET hits == {j \in i..Len(s) : s[j] = b}
    IN  IF hits = {} THEN 0 ELSE MinOf(hits)

\* The links the markdown parser reports, in document order: inline links
\* `[text](dest)`, each with its byte range in the source (`start` the
\* offset of `[`, `end` the offset after `)`).
RECURSIVE LinkSpans(_, _)
LinkSpans(src, i) ==
    LET marks == {j \in i..(Len(src) - 1) : src[j] = 93 /\ src[j + 1] = 40}
    IN  IF marks = {} THEN <<>>
        ELSE LET mark == MinOf(marks)
                 close == FindByte(src, mark + 2, 41)
                 opens == {j \in i..(mark - 1) : src[j] = 91}
             IN  IF close = 0 THEN <<>>
                 ELSE IF opens = {} THEN LinkSpans(src, mark + 1)
                 ELSE <<[dest |-> SubSeq(src, mark + 2, close - 1),
                         text |-> SubSeq(src, MaxOf(opens) + 1, mark - 1),
                         start |-> MaxOf(opens) - 1,
                         end |-> close]>>
                      \o LinkSpans(src, close + 1)

LinkDests(src, i) ==
    LET spans == LinkSpans(src, i) IN [k \in 1..Len(spans) |-> spans[k].dest]

\* The bytes of context taken on each side of a link, and the cap on the
\* plain-text snippet.
SNIPPET_CONTEXT == 80
SNIPPET_MAX == 200

\* str::is_char_boundary at byte offset k.
is_char_boundary(s, k) == k = 0 \/ k >= Len(s) \/ ~IsCont(s, k + 1)

RECURSIVE BoundaryDown(_, _)
BoundaryDown(s, k) ==
    IF k > 0 /\ ~is_char_boundary(s, k) THEN BoundaryDown(s, k - 1) ELSE k

RECURSIVE BoundaryUp(_, _)
BoundaryUp(s, k) ==
    IF k < Len(s) /\ ~is_char_boundary(s, k) THEN BoundaryUp(s, k + 1) ELSE k

\* u8::is_ascii_whitespace
AsciiWhitespace == {9, 10, 12, 13, SP}

\* split_ascii_whitespace().join(" ")
CollapseWhitespace(plain) ==
    LET ws(i) == plain[i] \in AsciiWhitespace
        solid == {i \in 1..Len(plain) : ~ws(i)}
        lo == MinOf(solid)
        hi == MaxOf(solid)
        keep(i) == i >= lo /\ i <= hi /\ (~ws(i) \/ ~ws(i - 1))
        kept == SelectSeq([i \in 1..Len(plain) |-> i], keep)
    IN  IF solid = {} THEN <<>>
        ELSE [k \in 1..Len(kept) |-> IF ws(kept[k]) THEN SP ELSE plain[kept[k]]]

\* The Text events of a fragment, each pushed after a space: the text
\* between links and the text of each link.
strip_markdown_to_plain(raw, max_chars) ==
    LET spans == LinkSpans(raw, 1)
        n == Len(spans)
        from(k) == IF k = 1 THEN 1 ELSE spans[k - 1].end + 1
        events == [m \in 1..(2 * n + 1) |->
                     IF m = 2 * n + 1 THEN SubSeq(raw, from(n + 1), Len(raw))
                     ELSE IF m % 2 = 1
                     THEN SubSeq(raw, from((m + 1) \div 2), spans[(m + 1) \div 2].start)
                     ELSE spans[m \div 2].text]
        plain == Join(SelectSeq(events, LAMBDA t : t # <<>>), SP)
        collapsed == CollapseWhitespace(plain)
    IN  IF Len(collapsed) > max_chars
        THEN SubSeq(collapsed, 1, BoundaryDown(collapsed, max_chars))
        ELSE collapsed

\* The snippet of the link at bytes ls..le of src.
Snippet(src, ls, le) ==
    LET snippet_start == BoundaryDown(src, IF ls > SNIPPET_CONTEXT THEN ls - SNIPPET_CONTEXT ELSE 0)
        snippet_end == BoundaryUp(src, IF le + SNIPPET_CONTEXT < Len(src)
                                       THEN le + SNIPPET_CONTEXT ELSE Len(src))
    IN  strip_markdown_to_plain(SubSeq(src, snippet_start + 1, snippet_end), SNIPPET_MAX)

ReplaceBackslash(s) == [i \in 1..Len(s) |-> IF s[i] = BACKSLASH THEN SLASH ELSE s[i]]

normalize_abs_path(comps) == NormalizeFrom(comps, 1, <<>>)

\* One link destination to the OutboundRef it yields ([some |-> FALSE] when
\* the link is filtered or dropped).
OutboundRef(dest, source_path, snippet) ==
    LET hash == FindByte(dest, 1, 35)
        path_part == IF hash = 0 THEN dest ELSE SubSeq(dest, 1, hash - 1)
        fragment == IF hash = 0 THEN <<>> ELSE SubSeq(dest, hash + 1, Len(dest))
        raw == IF Head(path_part) = SLASH
               THEN serve_root \o Split(path_part, SLASH)
               ELSE Front(source_path) \o Split(path_part, SLASH)
        resolved == normalize_abs_path(raw)
        none == [some |-> FALSE, target_url_path |-> <<>>, target_fragment |-> <<>>,
                 snippet |-> <<>>]
    IN  IF (\E scheme \in ExternalSchemes : StartsWith(Lower(dest), scheme)) \/ path_part = <<>>
        THEN none
        ELSE IF ~resolved.ok \/ ~StartsWith(resolved.parts, serve_root) THEN none
        ELSE [some |-> TRUE,
              target_url_path |->
                  url_key_from_rel_path(ReplaceBackslash(
                      Display(SubSeq(resolved.parts, Len(serve_root) + 1, Len(resolved.parts))))),
              target_fragment |-> fragment,
              snippet |-> snippet]

extract_outbound_links(src, source_path) ==
    LET spans == LinkSpans(src, 1)
        refs == [i \in 1..Len(spans) |->
                   OutboundRef(spans[i].dest, source_path,
                               Snippet(src, spans[i].start, spans[i].end))]
    IN  SelectSeq(refs, LAMBDA ref : ref.some)

\* The key the indexer files a source document under.
source_url_path(path) ==
    url_key_from_rel_path(ReplaceBackslash(Display(SubSeq(path, Len(serve_root) + 1, Len(path)))))

\* The inversion loop without the self-link test.  C11's formula is
\* violated under this variant.
RECURSIVE AddEdges_with_self_links(_, _, _, _, _)
AddEdges_with_self_links(index, refs, i, source, seen_targets) ==
    IF i > Len(refs) THEN index
    ELSE LET target == refs[i].target_url_path
             ref == [source_url_path |-> source,
                     source_display |-> SubSeq(source, 2, Len(source)),
                     snippet |-> refs[i].snippet,
                     target_fragment |-> refs[i].target_fragment]
         IN  IF target \in seen_targets
             THEN AddEdges_with_self_links(index, refs, i + 1, source, seen_targets)
             ELSE AddEdges_with_self_links(
                    IF target \in DOMAIN index
                    THEN [index EXCEPT ![target] = Append(@, ref)]
                    ELSE index @@ (target :> <<ref>>),
                    refs, i + 1, source, seen_targets \cup {target})

\* The inversion loop without seen_targets: every link is filed.  C12's
\* formula is violated under this variant.
RECURSIVE AddEdges_every_link(_, _, _, _, _)
AddEdges_every_link(index, refs, i, source, seen_targets) ==
    IF i > Len(refs) THEN index
    ELSE LET target == refs[i].target_url_path
             ref == [source_url_path |-> source,
                     source_display |-> SubSeq(source, 2, Len(source)),
                     snippet |-> refs[i].snippet,
                     target_fragment |-> refs[i].target_fragment]
         IN  IF target = source
             THEN AddEdges_every_link(index, refs, i + 1, source, seen_targets)
             ELSE AddEdges_every_link(
                    IF target \in DOMAIN index
                    THEN [index EXCEPT ![target] = Append(@, ref)]
                    ELSE index @@ (target :> <<ref>>),
                    refs, i + 1, source, seen_targets)

\* The inversion loop for one source file: self-links and repeated targets
\* are skipped.
RECURSIVE AddEdges(_, _, _, _, _)
AddEdges(index, refs, i, source, seen_targets) ==
    IF i > Len(refs) THEN index
    ELSE LET target == refs[i].target_url_path
             ref == [source_url_path |-> source,
                     source_display |-> SubSeq(source, 2, Len(source)),
                     snippet |-> refs[i].snippet,
                     target_fragment |-> refs[i].target_fragment]
         IN  IF target = source \/ target \in seen_targets
             THEN AddEdges(index, refs, i + 1, source, seen_targets)
             ELSE AddEdges(
                    IF target \in DOMAIN index
                    THEN [index EXCEPT ![target] = Append(@, ref)]
                    ELSE index @@ (target :> <<ref>>),
                    refs, i + 1, source, seen_targets \cup {target})

RECURSIVE SortNames(_)
SortNames(S) ==
    IF S = {} THEN <<>>
    ELSE LET first == CHOOSE x \in S : \A y \in S \ {x} : BytesLess(x, y)
         IN  <<first>> \o SortNames(S \ {first})

RECURSIVE IndexFiles(_, _, _, _, _)
IndexFiles(f, dir, names, i, index) ==
    IF i > Len(names) THEN index
    ELSE LET path == Append(dir, names[i])
             ext == Extension(names[i]).ext
             meta == Metadata(f, path)
         IN  IF IsDir(f, path) \/ ext \notin {EXT_md, EXT_markdown}
                \/ ~IsFile(f, path) \/ ~from_utf8_ok(meta.node.data)
             THEN IndexFiles(f, dir, names, i + 1, index)
             ELSE IndexFiles(f, dir, names, i + 1,
                    AddEdges(index, extract_outbound_links(meta.node.data, path), 1,
                             source_url_path(path), {}))

\* The queue of directories still to visit; read_dir order is taken by name.
RECURSIVE IndexQueue(_, _, _)
IndexQueue(f, queue, index) ==
    IF queue = <<>> THEN index
    ELSE LET dir == Head(queue)
             names == SortNames(ReadDir(f, dir).names)
             subdirs == SelectSeq(names, LAMBDA n : IsDir(f, Append(dir, n)) /\ n \notin SkippedDirs)
         IN  IndexQueue(f,
                        Tail(queue) \o [i \in 1..Len(subdirs) |-> Append(dir, subdirs[i])],
                        IndexFiles(f, dir, names, 1, index))

build_backlinks_index(f) == IndexQueue(f, <<serve_root>>, <<>>)

----------------------------------------------------------------------------
(* The page shell (html.rs).                                               *)

\* Path::file_stem
FileStem(name) ==
    LET k == LastDot(name, Len(name)) IN IF k <= 1 THEN name ELSE SubSeq(name, 1, k - 1)

\* The rendered fragment of a document: its text in one paragraph.
render_markdown(content) == <<60, 112, 62>> \o html_escape(content) \o <<60, 47, 112, 62>>

RECURSIVE BacklinkItems(_, _)
BacklinkItems(refs, i) ==
    IF i > Len(refs) THEN <<>>
    ELSE <<Part("href", TRUE,
                html_escape(refs[i].source_url_path)
                \o (IF refs[i].target_fragment = <<>> THEN <<>>
                    ELSE <<35>> \o html_escape(refs[i].target_fragment))),
           Part("fs-name", TRUE, html_escape(refs[i].source_display)),
           Part("snippet", TRUE, html_escape(refs[i].snippet))>>
         \o BacklinkItems(refs, i + 1)

build_backlinks_html(refs) ==
    IF refs = <<>> THEN <<>>
    ELSE <<Lit(<<66, 97, 99, 107, 108, 105, 110, 107, 115, 32, 40>>), Part("num", FALSE, Decimal(Len(refs))), Lit(<<41>>)>>
         \o BacklinkItems(refs, 1)

build_page_shell(body_html, file_path, refs, file_mtime_secs, page_url_path) ==
    <<Lit(<<60, 116, 105, 116, 108, 101, 62>>), Part("fs-name", TRUE, html_escape(FileStem(Last(file_path)))),
      Lit(<<109, 100, 109, 100, 45, 109, 116, 105, 109, 101>>), Part("num", FALSE, Decimal(file_mtime_secs)),
      Lit(<<109, 100, 109, 100, 45, 112, 97, 116, 104>>), Part("request-path", TRUE, html_escape(page_url_path)),
      Part("content", FALSE, body_html)>>
    \o build_backlinks_html(refs)

----------------------------------------------------------------------------
(* The request handlers.                                                   *)

\* The embedded assets (web_assets.rs), abbreviated.
CSS == <<98, 111, 100, 121, 123, 125>>
JS == <<105, 110, 105, 116, 40, 41>>

css_etag == compute_etag(CSS)
js_etag == compute_etag(JS)

\* The mtime of the running binary.
asset_mtime == Time(1, 1)

Request(path, query, if_none_match, if_modified_since) ==
    [path |-> path, query |-> query,
     if_none_match |-> if_none_match, if_modified_since |-> if_modified_since]

\* resolve_candidate trying index.md before README.md.  C9's formula is
\* violated under this variant.
resolve_candidate_index_first(f, candidate) ==
    LET some(path, branch) == [some |-> TRUE, path |-> path, branch |-> branch]
        none == [some |-> FALSE, path |-> <<>>, branch |-> ""]
        readme == Append(candidate, N_README_md)
        index == Append(candidate, N_index_md)
        with_md == with_extension_md(candidate)
    IN  IF IsFile(f, candidate) THEN some(candidate, "exact")
        ELSE IF IsDir(f, candidate)
        THEN (IF IsFile(f, index) THEN some(index, "index")
              ELSE IF IsFile(f, readme) THEN some(readme, "readme")
              ELSE none)
        ELSE IF ~Extension(Last(candidate)).some /\ IsFile(f, with_md)
        THEN some(with_md, "extensionless")
        ELSE none

resolve_candidate(f, candidate) ==
    LET some(path, branch) == [some |-> TRUE, path |-> path, branch |-> branch]
        none == [some |-> FALSE, path |-> <<>>, branch |-> ""]
        readme == Append(candidate, N_README_md)
        index == Append(candidate, N_index_md)
        with_md == with_extension_md(candidate)
    IN  IF IsFile(f, candidate) THEN some(candidate, "exact")
        ELSE IF IsDir(f, candidate)
        THEN (IF IsFile(f, readme) THEN some(readme, "readme")
              ELSE IF IsFile(f, index) THEN some(index, "index")
              ELSE none)
        ELSE IF ~Extension(Last(candidate)).some /\ IsFile(f, with_md)
        THEN some(with_md, "extensionless")
        ELSE none

\* The conditional-request block every 200 of serve_handler but the
\* directory index goes through: If-None-Match first, If-Modified-Since
\* only when If-None-Match is absent.
Conditional(r, etag, last_modified, mtime, response) ==
    LET not_modified ==
            WithLog(not_modified_response(etag, last_modified),
                    [response.log EXCEPT !.mode = "not_modified"])
    IN  IF r.if_none_match.some
        THEN (IF etag_matches(r.if_none_match.val, etag) THEN not_modified ELSE response)
        ELSE IF r.if_modified_since.some
        THEN (IF not_modified_since(r.if_modified_since, mtime) THEN not_modified ELSE response)
        ELSE response

ServeAsset(r, etag, content_type, content) ==
    LET last_modified == format_http_date(asset_mtime)
    IN  Conditional(r, etag, last_modified, asset_mtime,
                    Response(200, content_type, TRUE, etag, last_modified,
                             <<Part("asset", FALSE, content)>>,
                             Log("asset", "", "", <<>>, <<>>)))

\* Step 7, for a file that passed the containment check and the size guard.
Dispatch(f, index, r, norm_display, resolved, branch, canonical, file_meta) ==
    LET ext == Extension(Last(canonical)).ext
        mtime == file_meta.mtime
        last_modified == format_http_date(mtime)
        content == file_meta.data
        key == url_key_from_rel_path(norm_display)
        backlinks_slice == IF key \in DOMAIN index THEN index[key] ELSE <<>>
        page == build_page_shell(render_markdown(content), canonical, backlinks_slice,
                                 mtime.secs, norm_display)
        ok(mode, content_type, body, k) ==
            Conditional(r, compute_etag(BodyBytes(body)), last_modified, mtime,
                        Response(200, content_type, TRUE, compute_etag(BodyBytes(body)),
                                 last_modified, body, Log(mode, branch, "", resolved, k)))
    IN  IF Lower(ext) = EXT_md
        THEN (IF ~from_utf8_ok(content) THEN Denied(branch, "read-failed", resolved)
              ELSE IF is_raw_mode(r.query)
              THEN ok("raw", "text/plain; charset=utf-8", <<Part("content", FALSE, content)>>, <<>>)
              ELSE ok("rendered", "text/html; charset=utf-8", page, key))
        ELSE ok("static_asset", mime_for_ext(ext), <<Part("content", FALSE, content)>>, <<>>)

\* The size guard with `>=` for `>`.  C8's formula is violated under this
\* variant.
TooLarge_inclusive(size) == size >= MAX_FILE_SIZE

\* `file_meta.len() > MAX_FILE_SIZE`
TooLarge(size) == size > MAX_FILE_SIZE

\* Steps 3 to 6, for a non-root normalized path.
ServeCandidate(f, index, r, norm_parts) ==
    LET norm_display == Display(norm_parts)
        candidate == serve_root \o norm_parts
        found == resolve_candidate(f, candidate)
        canonical == Canonicalize(f, found.path)
        file_meta == Metadata(f, canonical.path)
    IN  IF ~found.some
        THEN (IF IsDir(f, candidate)
              THEN render_directory_index_response(f, candidate, <<SLASH>> \o norm_display)
              ELSE rich_not_found_response(f, norm_parts))
        ELSE IF ~canonical.ok THEN Denied(found.branch, "canonicalize-failed", found.path)
        ELSE IF ~StartsWith(canonical.path, canonical_root)
        THEN Denied(found.branch, "outside-root", found.path)
        ELSE IF ~file_meta.ok THEN Denied(found.branch, "metadata-failed", found.path)
        ELSE IF TooLarge(file_meta.node.size)
        THEN WithLog(too_large_response(norm_display, file_meta.node.size),
                     Log("denied", found.branch, "too-large", found.path, <<>>))
        ELSE Dispatch(f, index, r, norm_display, found.path, found.branch,
                      canonical.path, file_meta.node)

\* "/assets/mdmd.css" and "/assets/mdmd.js"
CSS_ROUTE == <<47, 97, 115, 115, 101, 116, 115, 47, 109, 100, 109, 100, 46, 99, 115, 115>>
JS_ROUTE == <<47, 97, 115, 115, 101, 116, 115, 47, 109, 100, 109, 100, 46, 106, 115>>

serve_handler(f, index, r) ==
    IF r.path = CSS_ROUTE
    THEN ServeAsset(r, css_etag, "text/css; charset=utf-8", CSS)
    ELSE IF r.path = JS_ROUTE
    THEN ServeAsset(r, js_etag, "text/javascript; charset=utf-8", JS)
    ELSE LET decoded == percent_decode(r.path)
             normalized == normalize_path(decoded.val)
         IN  IF ~decoded.ok THEN Denied("", "invalid-percent-encoding", <<>>)
             ELSE IF NUL \in Range(decoded.val) THEN Denied("", "null-byte", <<>>)
             ELSE IF ~normalized.ok THEN Denied("", "path-traversal", <<>>)
             ELSE IF normalized.parts = <<>>
             THEN render_directory_index_response(f, canonical_root, <<SLASH>>)
             ELSE ServeCandidate(f, index, r, normalized.parts)

freshness_404(reason) ==
    Response(404, "application/json", TRUE, <<>>, NoHeader,
             <<Lit(<<123, 34, 101, 114, 114, 111, 114, 34, 58, 34, 110, 111, 116, 32, 102, 111, 117, 110, 100, 34, 125>>)>>,
             Log("freshness", "", reason, <<>>, <<>>))

\* "path"
PARAM_path == <<112, 97, 116, 104>>

\* The value of the first `path=` parameter of the query, "" without one.
RECURSIVE PathParam(_, _)
PathParam(params, i) ==
    IF i > Len(params) THEN <<>>
    ELSE LET eq == FindByte(params[i], 1, 61)
         IN  IF eq > 0 /\ SubSeq(params[i], 1, eq - 1) = PARAM_path
             THEN SubSeq(params[i], eq + 1, Len(params[i]))
             ELSE PathParam(params, i + 1)

\* freshness_handler without its containment check.
freshness_handler_unconfined(f, r) ==
    LET path_raw == PathParam(Split(r.query, AMP), 1)
        decoded == percent_decode(path_raw)
        normalized == normalize_path(decoded.val)
        candidate == canonical_root \o normalized.parts
        canonical == Canonicalize(f, candidate)
        meta == Metadata(f, canonical.path)
    IN  IF ~decoded.ok THEN freshness_404("invalid-percent-encoding")
        ELSE IF NUL \in Range(decoded.val) THEN freshness_404("null-byte")
        ELSE IF ~normalized.ok THEN freshness_404("path-traversal")
        ELSE IF normalized.parts = <<>> THEN freshness_404("empty-path")
        ELSE IF ~canonical.ok THEN freshness_404("canonicalize-failed")
        ELSE IF ~meta.ok THEN freshness_404("metadata-failed")
        ELSE Response(200, "application/json", TRUE, <<>>, NoHeader,
                      <<Lit(<<123, 34, 109, 116, 105, 109, 101, 34, 58>>), Part("num", FALSE, Decimal(meta.node.mtime.secs)),
                        Lit(<<125>>)>>,
                      Log("freshness", "", "", candidate, <<>>))

freshness_handler(f, r) ==
    LET path_raw == PathParam(Split(r.query, AMP), 1)
        decoded == percent_decode(path_raw)
        normalized == normalize_path(decoded.val)
        candidate == canonical_root \o normalized.parts
        canonical == Canonicalize(f, candidate)
        meta == Metadata(f, canonical.path)
    IN  IF ~decoded.ok THEN freshness_404("invalid-percent-encoding")
        ELSE IF NUL \in Range(decoded.val) THEN freshness_404("null-byte")
        ELSE IF ~normalized.ok THEN freshness_404("path-traversal")
        ELSE IF normalized.parts = <<>> THEN freshness_404("empty-path")
        ELSE IF ~canonical.ok THEN freshness_404("canonicalize-failed")
        ELSE IF ~StartsWith(canonical.path, canonical_root) THEN freshness_404("outside-root")
        ELSE IF ~meta.ok THEN freshness_404("metadata-failed")
        ELSE Response(200, "application/json", TRUE, <<>>, NoHeader,
                      <<Lit(<<123, 34, 109, 116, 105, 109, 101, 34, 58>>), Part("num", FALSE, Decimal(meta.node.mtime.secs)),
                        Lit(<<125>>)>>,
                      Log("freshness", "", "", candidate, <<>>))

FRESHNESS_ROUTE == <<47, 95, 109, 100, 109, 100, 47, 102, 114, 101, 115, 104, 110, 101, 115, 115>>

\* The router of run_serve: one route, serve_handler as the fallback.
Router(f, index, r) ==
    IF r.path = FRESHNESS_ROUTE THEN freshness_handler(f, r) ELSE serve_handler(f, index, r)

----------------------------------------------------------------------------
(* The server as a state machine: a request is handled against the file    *)
(* tree as it is at that moment, its response is delivered, and between    *)
(* requests other processes rewrite files.                                 *)

NoRequest == Request(<<>>, <<>>, NoHeader, NoHeader)
NoResponse == Response(0, "", FALSE, <<>>, NoHeader, <<>>, NoLog)

\* Raw spellings of one path segment.
TraversalSegs == {<<97, 46, 109, 100>>, <<100>>, <<46, 46>>, <<37, 50, 101, 37, 50, 69>>, <<46>>}

TraversalPaths ==
    {<<SLASH>> \o Join(segs, SLASH) :
        segs \in UNION {[1..n -> TraversalSegs] : n \in 1..MaxSegs}}

NamedPaths ==
    {<<47>>,
     <<47, 97, 115, 115, 101, 116, 115, 47, 109, 100, 109, 100, 46, 99, 115, 115>>,
     <<47, 97, 115, 115, 101, 116, 115, 47, 109, 100, 109, 100, 46, 106, 115>>,
     <<47, 97>>,
     <<47, 97, 46, 109, 100>>,
     <<47, 37, 54, 49, 46, 109, 100>>,
     <<47, 98>>,
     <<47, 98, 46, 109, 100>>,
     <<47, 99, 37, 50, 48, 99, 46, 109, 100>>,
     <<47, 100>>,
     <<47, 100, 47>>,
     <<47, 101>>,
     <<47, 102>>,
     <<47, 102, 47, 103, 46, 98, 105, 110>>,
     <<47, 102, 47, 109>>,
     <<47, 120>>,
     <<47, 120, 46, 109, 100>>,
     <<47, 121>>,
     <<47, 119>>,
     <<47, 118>>,
     <<47, 104, 46, 109, 100>>,
     <<47, 105, 46, 109, 100>>,
     <<47, 117, 46, 109, 100>>,
     <<47, 122>>,
     <<47, 122, 47, 113, 46, 116, 120, 116>>,
     <<47, 37, 48, 48>>,
     <<47, 37, 50>>,
     <<47, 37, 122, 122>>,
     <<47, 37, 102, 102>>,
     <<47, 119, 47, 107>>,
     <<47, 121, 47, 112, 46, 109, 100>>,
     <<47, 121, 47, 110>>,
     <<47, 100, 47, 82, 69, 65, 68, 77, 69, 46, 109, 100>>,
     <<47, 100, 47, 46, 46, 37, 50, 102, 46, 46, 37, 50, 102, 111, 117, 116, 37, 50, 102, 112, 46, 109, 100>>,
     <<47, 65, 46, 77, 68>>}

\* The paths also asked for with a query string.
QueryPaths ==
    {<<47>>,
     <<47, 97, 46, 109, 100>>,
     <<47, 97>>,
     <<47, 100>>,
     <<47, 102, 47, 103, 46, 98, 105, 110>>,
     <<47, 105, 46, 109, 100>>,
     <<47, 117, 46, 109, 100>>,
     <<47, 122>>}

Queries == {RAW_PARAM, <<120, 61, 49, 38, 114, 97, 119, 61, 49>>, <<114, 97, 119, 61, 49, 48>>}

FreshnessQueries ==
    {<<112, 97, 116, 104, 61, 97, 46, 109, 100>>,
     <<112, 97, 116, 104, 61, 47, 97, 46, 109, 100>>,
     <<112, 97, 116, 104, 61, 97>>,
     <<>>,
     <<112, 97, 116, 104, 61>>,
     <<112, 97, 116, 104, 61, 46, 46>>,
     <<112, 97, 116, 104, 61, 37, 50, 101, 37, 50, 101, 47, 97, 46, 109, 100>>,
     <<112, 97, 116, 104, 61, 120, 46, 109, 100>>,
     <<112, 97, 116, 104, 61, 122>>,
     <<112, 97, 116, 104, 61, 37, 48, 48>>,
     <<112, 97, 116, 104, 61, 37, 122, 122>>,
     <<112, 97, 116, 104, 61, 100>>,
     <<112, 97, 116, 104, 61, 121, 47, 112, 46, 109, 100>>,
     <<120, 61, 49, 38, 112, 97, 116, 104, 61, 100, 47, 82, 69, 65, 68, 77, 69, 46, 109, 100>>,
     <<112, 97, 116, 104>>}

\* "\"0000000000000000\""
OtherTag == <<DQUOTE>> \o [i \in 1..16 |-> 48] \o <<DQUOTE>>

\* If-None-Match values, given the ETag the resource has now.
IfNoneMatchValues(etag) ==
    {TagHeader(<<STAR>>), TagHeader(<<SP, STAR, SP>>), TagHeader(OtherTag),
     TagHeader(etag),
     TagHeader(OtherTag \o <<SP, COMMA, SP>> \o etag \o <<SP>>),
     TagHeader(<<87, SLASH>> \o etag)}

IfModifiedSinceValues == {GarbageHeader} \cup {DateHeader(t) : t \in 0..MaxTime}

\* The conditional headers a client sends with a request, given the ETag
\* the resource has now ("" when its response carries none).
Conditionals(etag) ==
    IF etag = <<>>
    THEN {<<NoHeader, NoHeader>>, <<TagHeader(<<STAR>>), NoHeader>>,
          <<NoHeader, DateHeader(MaxTime)>>}
    ELSE {<<NoHeader, NoHeader>>}
         \cup {<<inm, NoHeader>> : inm \in IfNoneMatchValues(etag)}
         \cup {<<NoHeader, ims>> : ims \in IfModifiedSinceValues}
         \cup {<<inm, ims>> : inm \in {TagHeader(OtherTag), TagHeader(etag)},
                              ims \in IfModifiedSinceValues}

----------------------------------------------------------------------------
(* Startup.  run_serve from its first line to the start of axum::serve:    *)
(* the working-directory check, the entry file, the index, the listener    *)
(* and the line on stdout.  `launch` is the command line and the working   *)
(* directory, `stdin` what can be read from standard input, `os_ports`     *)
(* which ports the system refuses, `tailscale` the DNS name it reports.    *)

\* No document is being rendered.
NoRender ==
    /\ headings = <<>> /\ heading_entries = <<>> /\ slug_counter = <<>>
    /\ link = <<>> /\ rewritten = <<>> /\ outbound = <<>>

\* No request is being served.
NoConnections == inflight = <<>>

\* The terminal viewer is not running.
NoViewer ==
    viewer = [current_path |-> <<>>, links |-> <<>>, total_lines |-> 0, scroll_offset |-> 0,
              focused_link |-> <<>>, nav_stack |-> <<>>, key |-> ""]

\* No index build is under way.
NoWalk == dir_queue = <<>> /\ file_reads = <<>>

MAX_PORT_ATTEMPTS == 100
U16 == 65536
DEFAULT_PORT == 3333

None == [some |-> FALSE, val |-> <<>>]
Some(v) == [some |-> TRUE, val |-> v]

Launch(cwd, file, start_port) == [cwd |-> cwd, file |-> file, start_port |-> start_port]
Stdin(is_terminal, input) == [is_terminal |-> is_terminal, input |-> input]
\* The first `busy` ports from the start port are taken; the next one
\* answers `then`.
OsPorts(busy, then) == [busy |-> busy, then |-> then]

\* BufRead::read_line: the bytes up to and including the first newline.
read_line(input) ==
    LET nl == FindByte(input, 1, 10)
        line == IF nl = 0 THEN input ELSE SubSeq(input, 1, nl)
    IN  IF from_utf8_ok(line)
        THEN [ok |-> TRUE, n |-> Len(line), answer |-> line]
        ELSE [ok |-> FALSE, n |-> 0, answer |-> <<>>]

Whitespace == {9, 10, 11, 12, 13, SP}

RECURSIVE str_trim(_)
str_trim(s) ==
    IF s # <<>> /\ Head(s) \in Whitespace THEN str_trim(Tail(s))
    ELSE IF s # <<>> /\ Last(s) \in Whitespace THEN str_trim(Front(s))
    ELSE s

\* The confirmation of lines 1547-1563: TRUE when run_serve goes on.
\* stdin.is_terminal decides only whether the prompt is written to stderr.
Confirmed(in) ==
    LET r == read_line(in.input)
        n == IF r.ok THEN r.n ELSE 0
    IN  IF n = 0 THEN TRUE
        ELSE LET trimmed == Lower(str_trim(r.answer))
             IN  trimmed = <<121>> \/ trimmed = <<121, 101, 115>>

Parent(path) == IF path = <<>> THEN path ELSE Front(path)

\* The locals of run_serve that end up in AppState.
AppState(canonical_entry, sroot, croot, efile, eurl) ==
    [canonical_entry |-> canonical_entry, serve_root |-> sroot,
     canonical_root |-> croot, entry_file |-> efile, entry_url_path |-> eurl]

NoState == AppState(<<>>, <<>>, <<>>, <<>>, <<>>)

NoBind == [done |-> FALSE, ok |-> FALSE, port |-> 0, error |-> ""]
BindOk(p) == [done |-> TRUE, ok |-> TRUE, port |-> p, error |-> ""]
BindErr(p, error) == [done |-> TRUE, ok |-> FALSE, port |-> p, error |-> error]

\* The ports the system hands out when asked for any free port.
EphemeralPorts == {32768, 60999}

\* The port a socket bound with port p is bound to.
LocalPorts(p) == IF p = 0 THEN EphemeralPorts ELSE {p}

\* TcpListener::bind as the system answers it.  Port 0 asks the system for
\* any free port, which it finds.
OsBind(os, start_port, p) ==
    LET offset == (p - start_port) % U16
    IN  IF p = 0 THEN "ok"
        ELSE IF offset < os.busy THEN "in_use"
        ELSE IF offset = os.busy THEN os.then
        ELSE "ok"

BACKLINKS_NOTICE ==
    <<98, 97, 99, 107, 108, 105, 110, 107, 115, 58, 32, 115, 116, 97, 114, 116, 117, 112, 45, 105, 110, 100, 101, 120, 101, 100, 59, 32, 114, 101, 115, 116, 97, 114, 116, 32, 115, 101, 114, 118, 101, 114, 32, 97, 102, 116, 101, 114, 32, 102, 105, 108, 101, 32, 101, 100, 105, 116, 115, 32, 116, 111, 32, 112, 105, 99, 107, 32, 117, 112, 32, 99, 104, 97, 110, 103, 101, 115>>

LOCALHOST == <<49, 50, 55, 46, 48, 46, 48, 46, 49>>

url_line(host, bound_port, eurl) ==
    <<104, 116, 116, 112, 58, 47, 47>> \o host \o <<58>> \o Decimal(bound_port) \o eurl

Exit(code) == pc' = "exited" /\ exit_status' = <<code>>

\* Lines 1500-1566: canonicalize the entry, choose the roots, and ask when
\* the entry is outside the working directory.
CheckCwd ==
    /\ pc = "start"
    /\ LET c == Canonicalize(fs, launch.cwd)
           canonical_cwd == IF c.ok THEN c.path ELSE launch.cwd
           e == Canonicalize(fs, launch.file)
           canonical_entry == e.path
           new_root == IF IsDir(fs, canonical_entry) THEN canonical_entry
                       ELSE Parent(canonical_entry)
           n == Canonicalize(fs, new_root)
           canonical_new_root == IF n.ok THEN n.path ELSE new_root
       IN  IF ~e.ok
           THEN Exit(1) /\ UNCHANGED app_state
           ELSE IF StartsWith(canonical_entry, canonical_cwd)
           THEN /\ app_state' = AppState(canonical_entry, launch.cwd, canonical_cwd, <<>>, <<>>)
                /\ pc' = "entry"
                /\ UNCHANGED exit_status
           ELSE IF Confirmed(stdin)
           THEN /\ app_state' = AppState(canonical_entry, new_root, canonical_new_root, <<>>, <<>>)
                /\ pc' = "entry"
                /\ UNCHANGED exit_status
           ELSE Exit(1) /\ UNCHANGED app_state
    /\ UNCHANGED <<fs, backlinks, req, resp, renderVars, envVars, viewerVars, effectVars, walkVars, connVars>>
    /\ UNCHANGED <<stdout, port, bind_log, bind_result>>

\* Lines 1568-1592: README.md / index.md for a directory entry, and the
\* URL path of the entry.
SelectEntry ==
    /\ pc = "entry"
    /\ LET ce == app_state.canonical_entry
           readme == Append(ce, N_README_md)
           index_md == Append(ce, N_index_md)
           found == ~IsDir(fs, ce) \/ IsFile(fs, readme) \/ IsFile(fs, index_md)
           efile == IF ~IsDir(fs, ce) THEN ce
                    ELSE IF IsFile(fs, readme) THEN readme ELSE index_md
           eurl == derive_entry_url_path(efile, app_state.canonical_root)
       IN  IF found /\ eurl.ok
           THEN /\ app_state' = [app_state EXCEPT !.entry_file = efile,
                                                  !.entry_url_path = eurl.val]
                /\ pc' = "index"
                /\ UNCHANGED exit_status
           ELSE Exit(1) /\ UNCHANGED app_state
    /\ UNCHANGED <<fs, backlinks, req, resp, renderVars, envVars, viewerVars, effectVars, walkVars, connVars>>
    /\ UNCHANGED <<stdout, port, bind_log, bind_result>>

\* Lines 1594-1623: the index is built (and says so on stdout), and the
\* state handed to the handlers is put together.
BuildState ==
    /\ pc = "index"
    /\ backlinks' = build_backlinks_index(fs)
    /\ stdout' = Append(stdout, BACKLINKS_NOTICE)
    /\ pc' = "bind"
    /\ UNCHANGED <<fs, req, resp, renderVars, envVars, viewerVars, effectVars, walkVars, connVars>>
    /\ UNCHANGED <<app_state, port, bind_log, bind_result, exit_status>>

\* One turn of the loop of bind_with_retry.
BindAttempt ==
    /\ pc = "bind"
    /\ Len(bind_log) < MAX_PORT_ATTEMPTS
    /\ LET result == OsBind(os_ports, launch.start_port, port)
       IN  /\ bind_log' = Append(bind_log, [port |-> port, result |-> result])
           /\ CASE result = "ok" ->
                     /\ bind_result' = BindOk(port)
                     /\ \E local_port \in LocalPorts(port) : listener' = <<local_port>>
                     /\ pc' = "announce"
                     /\ UNCHANGED <<port, exit_status>>
                [] result = "in_use" ->
                     /\ port' = (port + 1) % U16
                     /\ UNCHANGED <<bind_result, listener, pc, exit_status>>
                [] OTHER ->
                     /\ bind_result' = BindErr(port, "failed")
                     /\ Exit(1)
                     /\ UNCHANGED <<port, listener>>
    /\ UNCHANGED <<fs, backlinks, req, resp, renderVars, envVars, viewerVars, browser, walkVars, connVars>>
    /\ UNCHANGED <<app_state, stdout>>

\* The loop of bind_with_retry has run MAX_PORT_ATTEMPTS times.
BindExhausted ==
    /\ pc = "bind"
    /\ Len(bind_log) = MAX_PORT_ATTEMPTS
    /\ bind_result' = BindErr(launch.start_port, "exhausted")
    /\ Exit(1)
    /\ UNCHANGED <<fs, backlinks, req, resp, renderVars, envVars, viewerVars, effectVars, walkVars, connVars>>
    /\ UNCHANGED <<app_state, stdout, port, bind_log>>

\* Lines 1651-1661: the URL on stdout.
Announce ==
    /\ pc = "announce"
    /\ LET host == IF tailscale.some THEN tailscale.val ELSE LOCALHOST
       IN  stdout' = Append(stdout, url_line(host, bind_result.port, app_state.entry_url_path))
    /\ pc' = "open"
    /\ UNCHANGED <<fs, backlinks, req, resp, renderVars, envVars, viewerVars, effectVars, walkVars, connVars>>
    /\ UNCHANGED <<app_state, port, bind_log, bind_result, exit_status>>

should_attempt_open(no_open, headed) == ~no_open /\ headed

\* The browser command run while the URL is still to be printed.  C24's
\* formula is violated under this variant.
OpenBrowser_before_url ==
    /\ pc = "announce"
    /\ browser = <<>>
    /\ browser' = <<url_line(LOCALHOST, bind_result.port, app_state.entry_url_path)>>
    /\ UNCHANGED <<serveVars, renderVars, procVars, viewerVars, listener, walkVars, connVars>>

\* Lines 1670-1677: the browser command is run on the entry URL, unless
\* --no-open was given or the environment is headless; the server then
\* serves.
OpenBrowser ==
    /\ pc = "open"
    /\ \E no_open \in BOOLEAN, headed \in BOOLEAN :
         browser' = IF should_attempt_open(no_open, headed)
                    THEN Append(browser, url_line(LOCALHOST, bind_result.port,
                                                  app_state.entry_url_path))
                    ELSE browser
    /\ pc' = "serving"
    /\ UNCHANGED <<fs, backlinks, req, resp, renderVars, procVars, viewerVars, listener, walkVars, connVars>>

\* The request a first client makes.
StartupRequests == {Request(<<47, 98, 46, 109, 100>>, <<>>, NoHeader, NoHeader)}

\* axum::serve (line 1679) takes a first request and its handler answers.
FirstAnswer ==
    /\ pc = "serving"
    /\ inflight = <<>>
    /\ \E r \in StartupRequests :
         inflight' = (1 :> [req |-> r, stage |-> "answered", observed |-> backlinks,
                            resp |-> Router(fs, backlinks, r)])
    /\ UNCHANGED <<serveVars, renderVars, procVars, viewerVars, effectVars, walkVars>>

DefaultLaunch == Launch(canonical_root, entry_file, DEFAULT_PORT)

\* The process has been started and has done nothing yet.
NotStarted ==
    /\ app_state = NoState
    /\ stdout = <<>>
    /\ port = launch.start_port
    /\ bind_log = <<>>
    /\ bind_result = NoBind
    /\ exit_status = <<>>
    /\ listener = <<>>
    /\ browser = <<>>

\* mdmd serve a.md in the served directory, the default port free, no
\* Tailscale: the state in which the server starts to serve.
StartedPlainly ==
    /\ launch = DefaultLaunch
    /\ stdin = Stdin(TRUE, <<>>)
    /\ os_ports = OsPorts(0, "ok")
    /\ tailscale = None
    /\ app_state = AppState(entry_file, serve_root, canonical_root, entry_file, entry_url_path)
    /\ stdout = <<BACKLINKS_NOTICE, url_line(LOCALHOST, DEFAULT_PORT, entry_url_path)>>
    /\ port = DEFAULT_PORT
    /\ bind_log = <<[port |-> DEFAULT_PORT, result |-> "ok"]>>
    /\ bind_result = BindOk(DEFAULT_PORT)
    /\ exit_status = <<>>
    /\ listener = <<DEFAULT_PORT>>
    /\ browser = <<>>

StdinInputs ==
    { <<>>,
      <<121, 10>>, <<89, 10>>, <<121, 101, 115, 10>>, <<89, 101, 83, 10>>, <<32, 121, 32, 13, 10>>, <<121>>,
      <<110, 10>>, <<10>>, <<121, 101, 115, 32, 112, 108, 101, 97, 115, 101, 10>>, <<110, 111, 10, 121, 10>>,
      <<255, 10>> }

\* Working directory and entry as given.  The root that comes out is
\* canonical_root or nothing.
Launches ==
    { DefaultLaunch,
      Launch(canonical_root, canonical_root \o <<N_d>>, DEFAULT_PORT),
      Launch(canonical_root, canonical_root \o <<N_f>>, DEFAULT_PORT),
      Launch(canonical_root, canonical_root \o <<N_z>>, DEFAULT_PORT),
      Launch(OutsideDir, entry_file, DEFAULT_PORT),
      Launch(canonical_root \o <<N_d>>, entry_file, DEFAULT_PORT),
      Launch(OutsideDir, canonical_root, DEFAULT_PORT),
      Launch(OutsideDir, canonical_root \o <<N_z>>, DEFAULT_PORT) }

PortWorlds ==
    {OsPorts(busy, then) :
        busy \in {0, 1, 2, MAX_PORT_ATTEMPTS - 1, MAX_PORT_ATTEMPTS, MAX_PORT_ATTEMPTS + 1},
        then \in {"ok", "denied"}}

TailscaleNames == {None, Some(<<98, 111, 120, 46, 116, 97, 105, 108, 49, 46, 116, 115, 46, 110, 101, 116>>)}

StartupInit ==
    /\ fs = InitialTree
    /\ backlinks = <<>>
    /\ pc = "start"
    /\ req = NoRequest
    /\ resp = NoResponse
    /\ NoRender
    /\ NoConnections
    /\ NoViewer
    /\ NoWalk
    /\ \/ /\ launch \in Launches
          /\ stdin \in {Stdin(t, i) : t \in BOOLEAN, i \in StdinInputs}
          /\ os_ports \in {OsPorts(0, "ok"), OsPorts(1, "ok")}
          /\ tailscale = None
       \/ /\ launch \in {DefaultLaunch, Launch(canonical_root, entry_file, U16 - 1),
                        Launch(canonical_root, entry_file, 0)}
          /\ stdin = Stdin(TRUE, <<>>)
          /\ os_ports \in PortWorlds
          /\ tailscale \in TailscaleNames
    /\ NotStarted

StartupNext ==
    \/ CheckCwd
    \/ SelectEntry
    \/ BuildState
    \/ BindAttempt
    \/ BindExhausted
    \/ Announce
    \/ OpenBrowser
    \/ FirstAnswer

SpecStartup == StartupInit /\ [][StartupNext]_vars

----------------------------------------------------------------------------
(* Serving. *)

Init ==
    /\ fs = InitialTree
    /\ backlinks = build_backlinks_index(InitialTree)
    /\ pc = "idle"
    /\ req = NoRequest
    /\ resp = NoResponse
    /\ NoRender
    /\ NoConnections
    /\ NoViewer
    /\ NoWalk
    /\ StartedPlainly

\* A GET that falls through to serve_handler.
ServeRequest ==
    /\ pc = "idle"
    /\ \E target \in (NamedPaths \X {<<>>}) \cup (QueryPaths \X Queries) :
         LET plain == Router(fs, backlinks, Request(target[1], target[2], NoHeader, NoHeader))
         IN  \E c \in Conditionals(plain.etag) :
               /\ req' = Request(target[1], target[2], c[1], c[2])
               /\ resp' = Router(fs, backlinks, req')
    /\ pc' = "responded"
    /\ UNCHANGED <<fs, backlinks>>
    /\ UNCHANGED <<renderVars, procVars, viewerVars, effectVars, walkVars, connVars>>

\* A GET whose path goes up and down the tree.
TraversalRequest ==
    /\ pc = "idle"
    /\ \E path \in TraversalPaths :
         /\ req' = Request(path, <<>>, NoHeader, NoHeader)
         /\ resp' = Router(fs, backlinks, req')
    /\ pc' = "responded"
    /\ UNCHANGED <<fs, backlinks>>
    /\ UNCHANGED <<renderVars, procVars, viewerVars, effectVars, walkVars, connVars>>

\* A GET of /_mdmd/freshness.
FreshnessRequest ==
    /\ pc = "idle"
    /\ \E query \in FreshnessQueries, c \in Conditionals(<<>>) :
         /\ req' = Request(FRESHNESS_ROUTE, query, c[1], c[2])
         /\ resp' = Router(fs, backlinks, req')
    /\ pc' = "responded"
    /\ UNCHANGED <<fs, backlinks>>
    /\ UNCHANGED <<renderVars, procVars, viewerVars, effectVars, walkVars, connVars>>

\* The response leaves; the server waits for the next request.
Deliver ==
    /\ pc = "responded"
    /\ pc' = "idle"
    /\ req' = NoRequest
    /\ resp' = NoResponse
    /\ UNCHANGED <<fs, backlinks>>
    /\ UNCHANGED <<renderVars, procVars, viewerVars, effectVars, walkVars, connVars>>

\* Another process rewrites a served file.
EnvWrite ==
    /\ pc = "idle"
    /\ \E path \in MutableFiles, data \in DataVariants, mtime \in Times :
         /\ fs[path] # FileNode(data, Len(data), mtime)
         /\ fs' = [fs EXCEPT ![path] = FileNode(data, Len(data), mtime)]
    /\ UNCHANGED <<backlinks, pc, req, resp>>
    /\ UNCHANGED <<renderVars, procVars, viewerVars, effectVars, walkVars, connVars>>

Next ==
    \/ ServeRequest
    \/ TraversalRequest
    \/ FreshnessRequest
    \/ Deliver
    \/ EnvWrite

Spec == Init /\ [][Next]_vars

----------------------------------------------------------------------------
(* Properties.  Each is stated over the request just answered (`req`), the *)
(* response to it (`resp`) and the file tree it was answered against.      *)

Responded == pc = "responded"

\* The request went to serve_handler's path pipeline: not the freshness
\* route, not an embedded asset.
PathRequest == Responded /\ req.path \notin {FRESHNESS_ROUTE, CSS_ROUTE, JS_ROUTE}

\* The response the same request gets without its conditional headers.
PlainResponse ==
    Router(fs, backlinks, [req EXCEPT !.if_none_match = NoHeader,
                                      !.if_modified_since = NoHeader])

\* A `..` met with nothing left to pop, counted on the depth alone.
RECURSIVE Underflows(_, _, _)
Underflows(segs, i, depth) ==
    IF i > Len(segs) THEN FALSE
    ELSE IF segs[i] \in {<<>>, <<DOT>>} THEN Underflows(segs, i + 1, depth)
    ELSE IF segs[i] = <<DOT, DOT>>
    THEN depth = 0 \/ Underflows(segs, i + 1, depth - 1)
    ELSE Underflows(segs, i + 1, depth + 1)

Escapes(decoded) == Underflows(Split(decoded, SLASH), 1, 0)

\* The terse 404: text/plain, the two words and nothing else.
TerseNotFound(r) ==
    /\ r.status = 404
    /\ r.content_type = "text/plain; charset=utf-8"
    /\ BodyBytes(r.body) = <<78, 111, 116, 32, 70, 111, 117, 110, 100>>

\* The object the request resolved to lies outside canonical_root.
ResolvedOutsideRoot ==
    /\ resp.log.resolved # <<>>
    /\ Canonicalize(fs, resp.log.resolved).ok
    /\ ~StartsWith(Canonicalize(fs, resp.log.resolved).path, canonical_root)

\* C1: whichever branch resolved the request (exact file, README.md or
\* index.md of a directory, extensionless .md, directory listing), an object
\* that canonicalizes outside canonical_root is answered with the terse 404.
C1_OutsideRootIsNotFound ==
    (/\ PathRequest
     /\ resp.log.branch \in {"exact", "readme", "index", "extensionless", "dir-index"}
     /\ ResolvedOutsideRoot)
    => TerseNotFound(resp)

\* C2: a request path whose percent-decoded form has a `..` with nothing
\* left to pop is answered 404 with nosniff, encoded or not.
C2_TraversalIsNotFound ==
    (/\ PathRequest
     /\ percent_decode(req.path).ok
     /\ Escapes(percent_decode(req.path).val))
    => (TerseNotFound(resp) /\ resp.nosniff)

\* A `..` written with percent-encoded dots escaped the root and was denied.
C2_EncodedTraversalDenied ==
    /\ PathRequest
    /\ PCT \in Range(req.path)
    /\ <<DOT, DOT>> \notin Range(Split(req.path, SLASH))
    /\ percent_decode(req.path).ok
    /\ NUL \notin Range(percent_decode(req.path).val)
    /\ Escapes(percent_decode(req.path).val)
    /\ resp.status = 404

\* The request is one the path pipeline denies before resolution.
DeniedBeforeResolution ==
    \/ ~percent_decode(req.path).ok
    \/ NUL \in Range(percent_decode(req.path).val)
    \/ Escapes(percent_decode(req.path).val)

\* C3: every denied outcome of the path pipeline is the terse 404, but
\* too-large, which is a 413 whose body names the request path and two
\* numbers and no path of the file system.
C3_DeniedIsTerse ==
    PathRequest =>
      /\ DeniedBeforeResolution => (resp.log.mode = "denied" /\ TerseNotFound(resp))
      /\ ResolvedOutsideRoot /\ resp.log.branch # "dir-index" => resp.log.mode = "denied"
      /\ resp.log.mode = "denied" /\ resp.log.reason # "too-large" => TerseNotFound(resp)
      /\ resp.status = 413 <=> (resp.log.mode = "denied" /\ resp.log.reason = "too-large")
      /\ resp.status = 413 =>
           /\ resp.content_type = "text/plain; charset=utf-8"
           /\ \A i \in 1..Len(resp.body) :
                /\ resp.body[i].src \in {"lit", "request-path", "num"}
                /\ resp.body[i].src = "request-path" =>
                     resp.body[i].bytes
                       = Display(normalize_path(percent_decode(req.path).val).parts)

\* A file reached through a symlink that leaves the root was denied.
C3_OutsideRootDenied ==
    /\ PathRequest
    /\ resp.log.branch \in {"exact", "readme", "index", "extensionless"}
    /\ ResolvedOutsideRoot
    /\ resp.log.reason = "outside-root"
    /\ TerseNotFound(resp)

\* C4: every response carries X-Content-Type-Options: nosniff.
C4_EveryResponseNosniff == Responded => resp.nosniff

\* A quoted string of 16 lowercase hex digits.
IsStrongEtag(etag) ==
    /\ Len(etag) = 18
    /\ etag[1] = DQUOTE /\ etag[18] = DQUOTE
    /\ \A i \in 2..17 : etag[i] \in Range(HexLower)

\* C5: every 200 carries an ETag of 16 lowercase hex digits in quotes and a
\* Last-Modified date.
C5_Every200HasValidators ==
    (Responded /\ resp.status = 200)
    => (IsStrongEtag(resp.etag) /\ resp.last_modified.kind = "date")

\* The header value is `*` or lists the tag.
TagListHas(value, etag) ==
    \/ Trim(value) = <<STAR>>
    \/ \E t \in Range(Split(value, COMMA)) : Trim(t) = etag

\* C6: a request whose If-None-Match is `*` or lists the ETag of the body it
\* would be answered with gets 304 with that ETag, Last-Modified and no body.
C6_MatchingIfNoneMatchIs304 ==
    (/\ Responded
     /\ req.if_none_match.some
     /\ PlainResponse.status = 200
     /\ PlainResponse.etag # <<>>
     /\ TagListHas(req.if_none_match.val, PlainResponse.etag))
    => /\ resp.status = 304
       /\ resp.etag = PlainResponse.etag
       /\ resp.last_modified.kind = "date"
       /\ resp.body = <<>>

\* The modification time behind the Last-Modified of the plain response.
ServedMtime ==
    IF req.path \in {CSS_ROUTE, JS_ROUTE} THEN asset_mtime
    ELSE Metadata(fs, PlainResponse.log.resolved).node.mtime

\* The request is for a file or an embedded asset whose 200 carries
\* Last-Modified, and it names a date in If-Modified-Since.
IfModifiedSinceApplies ==
    /\ Responded
    /\ req.if_modified_since.some
    /\ PlainResponse.status = 200
    /\ PlainResponse.last_modified.kind = "date"

\* The header parses and the mtime, cut to whole seconds, is not after it.
IfModifiedSinceSatisfied ==
    /\ req.if_modified_since.kind = "date"
    /\ ServedMtime.secs <= req.if_modified_since.secs

\* C7 as stated: whenever If-None-Match produced no 304 (absent, or present
\* without a match) and If-Modified-Since is present, the response is 304 if
\* the date parses and the truncated mtime is at or before it, the full 200
\* otherwise.
C7_IfModifiedSinceAfterNoMatch ==
    (/\ IfModifiedSinceApplies
     /\ \/ ~req.if_none_match.some
        \/ ~TagListHas(req.if_none_match.val, PlainResponse.etag))
    => IF IfModifiedSinceSatisfied THEN resp.status = 304
       ELSE resp = PlainResponse

\* C7, amended: If-Modified-Since decides only when If-None-Match is absent;
\* with an If-None-Match that does not match, the full 200 is returned
\* whatever If-Modified-Since says.
C7_IfModifiedSinceOnlyWithoutIfNoneMatch ==
    IfModifiedSinceApplies =>
      IF ~req.if_none_match.some
      THEN (IF IfModifiedSinceSatisfied
            THEN /\ resp.status = 304
                 /\ resp.body = <<>>
                 /\ resp.etag = PlainResponse.etag
                 /\ resp.last_modified = PlainResponse.last_modified
            ELSE resp = PlainResponse)
      ELSE (~TagListHas(req.if_none_match.val, PlainResponse.etag)
              => resp = PlainResponse)

\* A file written later within the second the client names is not modified.
C7_SameSecondIsNotModified ==
    /\ IfModifiedSinceApplies
    /\ ~req.if_none_match.some
    /\ req.if_modified_since.kind = "date"
    /\ ServedMtime.secs = req.if_modified_since.secs
    /\ ServedMtime.nanos > 0
    /\ resp.status = 304

\* The request resolved to a file inside the root whose metadata can be read.
ResolvedFileInRoot ==
    /\ PathRequest
    /\ resp.log.branch \in {"exact", "readme", "index", "extensionless"}
    /\ Canonicalize(fs, resp.log.resolved).ok
    /\ StartsWith(Canonicalize(fs, resp.log.resolved).path, canonical_root)

ResolvedSize == Metadata(fs, resp.log.resolved).node.size

\* C8: a resolved file is refused with 413 if and only if it is larger than
\* 16 MiB; at exactly 16 MiB it is served.
C8_SizeGuardStrict ==
    ResolvedFileInRoot =>
      /\ resp.status = 413 <=> ResolvedSize > 16 * 1024 * 1024
      /\ ResolvedSize <= 16 * 1024 * 1024 =>
           \/ resp.status \in {200, 304}
           \/ resp.log.reason = "read-failed"

\* A file of exactly 16 MiB was served.
C8_ExactLimitServed ==
    /\ ResolvedFileInRoot
    /\ ResolvedSize = 16 * 1024 * 1024
    /\ resp.status = 200

\* The branch and the path the stated order gives for a candidate.
ExpectedResolution(f, candidate) ==
    LET in(name) == Append(candidate, name)
        dot_md == [candidate EXCEPT ![Len(candidate)] = @ \o <<46, 109, 100>>]
        to(branch, path) == [branch |-> branch, path |-> path]
    IN  IF IsFile(f, candidate) THEN to("exact", candidate)
        ELSE IF IsDir(f, candidate) /\ IsFile(f, in(N_README_md))
        THEN to("readme", in(N_README_md))
        ELSE IF IsDir(f, candidate) /\ IsFile(f, in(N_index_md))
        THEN to("index", in(N_index_md))
        ELSE IF IsDir(f, candidate) THEN to("dir-index", candidate)
        ELSE IF DOT \notin Range(Last(candidate)) /\ IsFile(f, dot_md)
        THEN to("extensionless", dot_md)
        ELSE to("not-found", <<>>)

\* The request reached candidate resolution with a non-root path.
ReachedResolution ==
    /\ PathRequest
    /\ ~DeniedBeforeResolution
    /\ normalize_path(percent_decode(req.path).val).parts # <<>>

RequestCandidate == serve_root \o normalize_path(percent_decode(req.path).val).parts

----------------------------------------------------------------------------
(* The index build over many trees: build_backlinks_index applied to a     *)
(* tree whose document p.md is any sequence of up to MaxPieces pieces.     *)

MaxPieces == 2

\* "p.md" is N_p_md; "q.md", "sub", "r.md", ".git"
N_q_md == <<113, 46, 109, 100>>
N_sub == <<115, 117, 98>>
N_r_md == <<114, 46, 109, 100>>
N_dot_git == <<46, 103, 105, 116>>

\* Plain text longer than the context a snippet takes.
IndexFiller == [i \in 1..(SNIPPET_CONTEXT + 1) |-> 120]

\* What a document is made of: links to q.md in three spellings, a link to
\* p.md, a link to sub/r.md, an external link, and a link to q.md that
\* comes after filler.
IndexPieces ==
    {<<91, 111, 110, 101, 93, 40, 113, 46, 109, 100, 35, 97, 41>>, <<91, 116, 119, 111, 93, 40, 46, 47, 113, 46, 109, 100, 35, 98, 41>>, <<91, 117, 112, 93, 40, 115, 117, 98, 47, 46, 46, 47, 113, 46, 109, 100, 41>>,
     <<91, 109, 101, 93, 40, 112, 46, 109, 100, 35, 115, 41>>, <<91, 114, 93, 40, 47, 115, 117, 98, 47, 114, 46, 109, 100, 35, 99, 41>>, <<91, 101, 120, 116, 93, 40, 104, 116, 116, 112, 115, 58, 47, 47, 113, 46, 109, 100, 41>>,
     IndexFiller \o <<91, 116, 119, 111, 93, 40, 46, 47, 113, 46, 109, 100, 35, 98, 41>>}

RECURSIVE IndexDocs(_)
IndexDocs(n) ==
    IF n = 0 THEN {<<>>}
    ELSE LET shorter == IndexDocs(n - 1)
         IN  shorter \cup {d \o piece : d \in shorter, piece \in IndexPieces}

IndexFile(data) == FileNode(data, Len(data), Time(1, 0))

IndexTree(doc) ==
    (<<>> :> DirNode)
    @@ (serve_root :> DirNode)
    @@ (serve_root \o <<N_p_md>> :> IndexFile(doc))
    @@ (serve_root \o <<N_q_md>> :>
          IndexFile(<<91, 97, 93, 40, 112, 46, 109, 100, 35, 120, 41>> \o IndexFiller \o <<91, 98, 93, 40, 46, 47, 112, 46, 109, 100, 35, 121, 41, 32, 91, 113, 93, 40, 113, 46, 109, 100, 41>>))
    @@ (serve_root \o <<N_sub>> :> DirNode)
    @@ (serve_root \o <<N_sub, N_r_md>> :> IndexFile(<<91, 114, 93, 40, 114, 46, 109, 100, 41, 32, 91, 114, 93, 40, 46, 46, 47, 115, 117, 98, 47, 114, 46, 109, 100, 35, 116, 41>>))
    @@ (serve_root \o <<N_dot_git>> :> DirNode)
    @@ (serve_root \o <<N_dot_git, N_r_md>> :> IndexFile(<<91, 103, 93, 40, 46, 46, 47, 113, 46, 109, 100, 35, 103, 41>>))
    @@ (serve_root \o <<N_b>> :> IndexFile(<<91, 116, 93, 40, 113, 46, 109, 100, 35, 116, 41>>))

IndexInit ==
    /\ fs \in {IndexTree(doc) : doc \in IndexDocs(MaxPieces)}
    /\ backlinks = <<>>
    /\ pc = "unindexed"
    /\ req = NoRequest
    /\ resp = NoResponse
    /\ NoRender
    /\ NoConnections
    /\ NoViewer
    /\ NoWalk
    /\ launch = DefaultLaunch
    /\ stdin = Stdin(TRUE, <<>>)
    /\ os_ports = OsPorts(0, "ok")
    /\ tailscale = None
    /\ NotStarted

\* run_serve builds the index.
BuildIndex ==
    /\ pc = "unindexed"
    /\ backlinks' = build_backlinks_index(fs)
    /\ pc' = "indexed"
    /\ UNCHANGED <<fs, req, resp>>
    /\ UNCHANGED <<renderVars, procVars, viewerVars, effectVars, walkVars, connVars>>

IndexNext == BuildIndex

SpecIndex == IndexInit /\ [][IndexNext]_vars

\* The documents the traversal reads: markdown files under the root, outside
\* the skipped directories.
IndexedSources ==
    {path \in DOMAIN fs :
       /\ Len(path) > Len(serve_root) /\ StartsWith(path, serve_root)
       /\ fs[path].kind = "file"
       /\ \E k \in 1..Len(Last(path)) :
            SubSeq(Last(path), k, Len(Last(path))) \in {<<46, 109, 100>>, <<46, 109, 97, 114, 107, 100, 111, 119, 110>>}
       /\ \A k \in 1..(Len(path) - 1) : path[k] \notin SkippedDirs}

\* "/" and the path below the root.
KeyOf(path) == <<SLASH>> \o Join(SubSeq(path, Len(serve_root) + 1, Len(path)), SLASH)

\* The links of a document that stay inside the root, with the key each
\* resolves to.
LinksOf(path) == extract_outbound_links(fs[path].data, path)

\* The references filed under key that come from source.
RefsFrom(key, source) ==
    IF key \in DOMAIN backlinks
    THEN SelectSeq(backlinks[key], LAMBDA ref : ref.source_url_path = source)
    ELSE <<>>

\* C11: the index holds no reference under the key of its own source, and a
\* document whose links all lead to itself is the source of no reference.
C11_NoSelfEdge ==
    pc = "indexed" =>
      /\ \A key \in DOMAIN backlinks : RefsFrom(key, key) = <<>>
      /\ \A path \in IndexedSources :
           (\A i \in 1..Len(LinksOf(path)) : LinksOf(path)[i].target_url_path = KeyOf(path))
           => \A key \in DOMAIN backlinks : RefsFrom(key, KeyOf(path)) = <<>>

\* p.md links to itself and to q.md: its key is in the index, filed by q.md,
\* and so is its link to q.md.
C11_SelfLinkingDocumentIndexed ==
    /\ pc = "indexed"
    /\ \E i \in 1..Len(LinksOf(serve_root \o <<N_p_md>>)) :
         LinksOf(serve_root \o <<N_p_md>>)[i].target_url_path = <<47, 112, 46, 109, 100>>
    /\ RefsFrom(<<47, 112, 46, 109, 100>>, <<47, 113, 46, 109, 100>>) # <<>>
    /\ RefsFrom(<<47, 113, 46, 109, 100>>, <<47, 112, 46, 109, 100>>) # <<>>
    /\ RefsFrom(<<47, 115, 117, 98, 47, 114, 46, 109, 100>>, <<47, 115, 117, 98, 47, 114, 46, 109, 100>>) = <<>>

\* C12: a source that links to another target any number of times is filed
\* exactly once under the target's key, with the fragment and the snippet of
\* its first link to it; nothing else is filed.
C12_OneReferencePerSourceAndTarget ==
    pc = "indexed" =>
      /\ \A path \in IndexedSources :
           LET links == LinksOf(path)
               targets == {links[i].target_url_path : i \in 1..Len(links)} \ {KeyOf(path)}
           IN  \A key \in targets :
                 LET first == links[MinOf({j \in 1..Len(links) :
                                            links[j].target_url_path = key})]
                     filed == RefsFrom(key, KeyOf(path))
                 IN  /\ Len(filed) = 1
                     /\ filed[1].target_fragment = first.target_fragment
                     /\ filed[1].snippet = first.snippet
      /\ \A key \in DOMAIN backlinks :
           \A i \in 1..Len(backlinks[key]) :
             \E path \in IndexedSources :
               /\ KeyOf(path) = backlinks[key][i].source_url_path
               /\ \E j \in 1..Len(LinksOf(path)) : LinksOf(path)[j].target_url_path = key

\* p.md links to q.md twice with more than a snippet's context between the
\* links: the reference filed is the first link's.
C12_FirstOfTwoDistantLinksFiled ==
    /\ pc = "indexed"
    /\ fs[serve_root \o <<N_p_md>>].data
         = <<91, 111, 110, 101, 93, 40, 113, 46, 109, 100, 35, 97, 41>> \o IndexFiller \o <<91, 116, 119, 111, 93, 40, 46, 47, 113, 46, 109, 100, 35, 98, 41>>
    /\ Len(RefsFrom(<<47, 113, 46, 109, 100>>, <<47, 112, 46, 109, 100>>)) = 1
    /\ RefsFrom(<<47, 113, 46, 109, 100>>, <<47, 112, 46, 109, 100>>)[1].target_fragment = <<97>>
    /\ RefsFrom(<<47, 113, 46, 109, 100>>, <<47, 112, 46, 109, 100>>)[1].snippet
         = <<111, 110, 101, 32>> \o [i \in 1..(SNIPPET_CONTEXT) |-> 120]

----------------------------------------------------------------------------
(* Heading anchors.  render_markdown walks the headings of one document in *)
(* order and gives each an anchor_id from its slug and a per-document      *)
(* counter.  Heading texts are ASCII here.                                 *)

MaxHeadings == 3

HYPHEN == 45
UNDERSCORE == 95

is_alphanumeric(c) ==
    \/ c >= 48 /\ c <= 57
    \/ c >= 65 /\ c <= 90
    \/ c >= 97 /\ c <= 122

\* One turn of the loop of slugify: `slug` so far, next character `c`.
slugify_push(slug, c) ==
    IF is_alphanumeric(c) THEN Append(slug, c)
    ELSE IF c \in {SP, HYPHEN, UNDERSCORE}
    THEN IF slug # <<>> /\ Last(slug) = HYPHEN THEN slug ELSE Append(slug, HYPHEN)
    ELSE slug

RECURSIVE slugify_chars(_, _)
slugify_chars(slug, text) ==
    IF text = <<>> THEN slug
    ELSE slugify_chars(slugify_push(slug, Head(text)), Tail(text))

RECURSIVE trim_matches(_, _)
trim_matches(s, c) ==
    IF s # <<>> /\ Head(s) = c THEN trim_matches(Tail(s), c)
    ELSE IF s # <<>> /\ Last(s) = c THEN trim_matches(Front(s), c)
    ELSE s

slugify(text) == trim_matches(slugify_chars(<<>>, Lower(text)), HYPHEN)

HeadingEntry(level, text, anchor_id) ==
    [level |-> level, text |-> text, anchor_id |-> anchor_id]

\* slug_counter.entry(base_slug).or_insert(0), then the branch on *count.
SlugCount(counter, base_slug) ==
    IF base_slug \in DOMAIN counter THEN counter[base_slug] ELSE 0

anchor_id_for(counter, base_slug) ==
    LET count == SlugCount(counter, base_slug)
    IN  IF count = 0 THEN base_slug
        ELSE base_slug \o <<HYPHEN>> \o Decimal(count)

CountSlug(counter, base_slug) ==
    [k \in DOMAIN counter \cup {base_slug} |->
        IF k = base_slug THEN SlugCount(counter, base_slug) + 1 ELSE counter[k]]

HeadingTexts ==
    { <<65>>,                  \* "A"
      <<97>>,                  \* "a"
      <<65, 32, 49>>,          \* "A 1"
      <<97, 45, 49>>,          \* "a-1"
      <<65, 95, 49, 33>>,      \* "A_1!"
      <<63>>,                  \* "?"
      <<66, 32, 45, 32, 98>> } \* "B - b"

HeadingNodes ==
    {[level |-> 1, text |-> t] : t \in HeadingTexts}
        \cup {[level |-> 2, text |-> <<65>>]}

RECURSIVE HeadingLists(_)
HeadingLists(n) ==
    IF n = 0 THEN {<<>>}
    ELSE LET shorter == HeadingLists(n - 1)
         IN  shorter \cup {Append(l, h) : l \in shorter, h \in HeadingNodes}

RenderInit ==
    /\ fs = InitialTree
    /\ backlinks = <<>>
    /\ pc = "rendering"
    /\ req = NoRequest
    /\ resp = NoResponse
    /\ headings \in HeadingLists(MaxHeadings)
    /\ heading_entries = <<>>
    /\ slug_counter = <<>>
    /\ link = <<>> /\ rewritten = <<>> /\ outbound = <<>>
    /\ NoConnections
    /\ NoViewer
    /\ NoWalk
    /\ StartedPlainly

\* One turn of the loop over root.traverse(): the next heading is pushed
\* onto `entries`.
ExtractHeading ==
    /\ pc = "rendering"
    /\ Len(heading_entries) < Len(headings)
    /\ LET node == headings[Len(heading_entries) + 1]
           base_slug == slugify(node.text)
       IN  /\ heading_entries' = Append(heading_entries,
                 HeadingEntry(node.level, node.text, anchor_id_for(slug_counter, base_slug)))
           /\ slug_counter' = CountSlug(slug_counter, base_slug)
    /\ UNCHANGED <<serveVars, headings, link, rewritten, outbound, procVars, viewerVars, effectVars, walkVars, connVars>>

RenderNext == ExtractHeading

SpecRender == RenderInit /\ [][RenderNext]_vars

\* The headings before the i-th with the same base slug.
EarlierSameSlug(i) ==
    {j \in 1..(i - 1) : slugify(heading_entries[j].text) = slugify(heading_entries[i].text)}

\* C13: the anchor_ids of the headings of a document are pairwise distinct,
\* and the first heading with a given base slug has the bare slug.
C13_AnchorIdsDistinct ==
    /\ \A i, j \in 1..Len(heading_entries) :
         i # j => heading_entries[i].anchor_id # heading_entries[j].anchor_id
    /\ \A i \in 1..Len(heading_entries) :
         EarlierSameSlug(i) = {} => heading_entries[i].anchor_id = slugify(heading_entries[i].text)

\* C13: headings "A", "a", "A 1" have been given "a", "a-1", "a-1".
C13_RepeatCollidesWithLiteralSuffix ==
    /\ Len(heading_entries) = 3
    /\ heading_entries[1].text = <<65>> /\ heading_entries[2].text = <<97>>
    /\ heading_entries[3].text = <<65, 32, 49>>
    /\ heading_entries[2].anchor_id = <<97, 45, 49>>
    /\ heading_entries[3].anchor_id = <<97, 45, 49>>

----------------------------------------------------------------------------
(* Properties of startup. *)

\* The entry given on the command line exists and its canonical form is
\* not under the canonical working directory.
EntryOutsideCwd ==
    LET c == Canonicalize(fs, launch.cwd)
        e == Canonicalize(fs, launch.file)
    IN  e.ok /\ ~StartsWith(e.path, IF c.ok THEN c.path ELSE launch.cwd)

\* The first line of standard input, without its line end and the blanks
\* around it, is y or yes in any case.
AnswerIsYes ==
    LET nl == FindByte(stdin.input, 1, 10)
        line == IF nl = 0 THEN stdin.input ELSE SubSeq(stdin.input, 1, nl)
    IN  Lower(str_trim(line)) \in {<<121>>, <<121, 101, 115>>}

ImmediateEof == stdin.input = <<>>

MayProceed == AnswerIsYes \/ (~stdin.is_terminal /\ ImmediateEof)

PastCwdCheck == pc \in {"entry", "index", "bind", "announce", "open", "serving"}

\* C14: with the entry outside the working directory the server goes on
\* only on y/yes or on a non-terminal stdin at immediate EOF; in every
\* other case the process exits non-zero and no bind has been attempted.
C14_OutsideCwdNeedsConsent ==
    EntryOutsideCwd =>
        /\ PastCwdCheck => MayProceed
        /\ (pc # "start" /\ ~MayProceed) =>
              /\ pc = "exited"
              /\ exit_status # <<>> /\ exit_status # <<0>>
              /\ bind_log = <<>>

\* C14: an outside entry, the answer "n": the process has exited with
\* status 1 before any bind.
C14_DeclineExits ==
    /\ EntryOutsideCwd
    /\ stdin.input = <<110, 10>>
    /\ pc = "exited" /\ exit_status = <<1>> /\ bind_log = <<>>

\* The attempts made so far are at start_port, start_port + 1, ...
AttemptsInOrder ==
    \A i \in 1..Len(bind_log) : bind_log[i].port = launch.start_port + (i - 1)

\* A further attempt follows only an address-in-use failure, there are at
\* most MAX_PORT_ATTEMPTS attempts, a success or another error ends the
\* binding at once, and exhaustion is reported after exactly
\* MAX_PORT_ATTEMPTS address-in-use failures.
RetryDiscipline ==
    /\ Len(bind_log) <= MAX_PORT_ATTEMPTS
    /\ \A i \in 2..Len(bind_log) : bind_log[i - 1].result = "in_use"
    /\ (bind_log # <<>> /\ Last(bind_log).result = "ok") =>
          bind_result = BindOk(Last(bind_log).port)
    /\ (bind_log # <<>> /\ Last(bind_log).result = "denied") =>
          /\ bind_result = BindErr(Last(bind_log).port, "failed")
          /\ pc = "exited" /\ exit_status = <<1>>
    /\ (bind_result.done /\ bind_result.error = "exhausted") <=>
          /\ pc = "exited"
          /\ Len(bind_log) = MAX_PORT_ATTEMPTS
          /\ \A i \in 1..Len(bind_log) : bind_log[i].result = "in_use"
    /\ bind_result.done /\ bind_result.ok =>
          bind_log # <<>> /\ Last(bind_log).result = "ok"

\* C15: binding tries start_port, start_port + 1, ... one at a time, goes
\* on only after address-in-use, makes at most 100 attempts, stops at the
\* first success, fails at once on another error, and reports exhaustion
\* after 100 address-in-use failures.
C15_BindRetry == AttemptsInOrder /\ RetryDiscipline

\* C15: started at port 65535, which is taken, the second attempt is at
\* port 0 and succeeds.
C15_PortWrapsToZero ==
    /\ launch.start_port = U16 - 1
    /\ Len(bind_log) = 2
    /\ bind_log[2] = [port |-> 0, result |-> "ok"]
    /\ bind_result = BindOk(0)

StdoutLabels == {<<114, 111, 111, 116, 58>>, <<101, 110, 116, 114, 121, 58>>, <<117, 114, 108, 58>>, <<105, 110, 100, 101, 120, 58>>, <<98, 97, 99, 107, 108, 105, 110, 107, 115, 58>>}

HasLabelPrefix(line) == \E label \in StdoutLabels : StartsWith(line, label)

IsUrlLine(line) == StartsWith(line, <<104, 116, 116, 112, 58, 47, 47>>)

\* The host the URL line is to name.
AnnouncedHost == IF tailscale.some THEN tailscale.val ELSE LOCALHOST

\* C20: no line on stdout begins with a label, and once the server serves
\* stdout holds exactly one URL line, http://{host}:{bound_port}{entry_url_path}.
C20_StdoutIsOneBareUrl ==
    /\ \A i \in 1..Len(stdout) : ~HasLabelPrefix(stdout[i])
    /\ pc = "serving" =>
          /\ Cardinality({i \in 1..Len(stdout) : IsUrlLine(stdout[i])}) = 1
          /\ \E i \in 1..Len(stdout) :
                stdout[i] = <<104, 116, 116, 112, 58, 47, 47>> \o AnnouncedHost \o <<58>>
                              \o Decimal(bind_result.port) \o app_state.entry_url_path

\* C20: the server serves, Tailscale names the host, and stdout holds the
\* index notice followed by the URL line.
C20_NoticeThenUrl ==
    /\ pc = "serving"
    /\ tailscale.some
    /\ Len(stdout) = 2
    /\ stdout[1] = BACKLINKS_NOTICE
    /\ stdout[2] = <<104, 116, 116, 112, 58, 47, 47, 98, 111, 120, 46, 116, 97, 105, 108, 49, 46, 116, 115, 46, 110, 101, 116, 58, 51, 51, 51, 51, 47, 97, 46, 109, 100>>

----------------------------------------------------------------------------
(* Properties of the freshness endpoint and of the rich 404. *)

FreshnessRequested == Responded /\ req.path = FRESHNESS_ROUTE

\* The `path` parameter of the request, percent-decoded.
FreshnessParam == percent_decode(PathParam(Split(req.query, AMP), 1))

\* What the decoded parameter names under canonical_root.
FreshnessTarget ==
    Canonicalize(fs, canonical_root \o normalize_path(FreshnessParam.val).parts)

\* The parameter decodes, has no null byte, does not climb out, names
\* something other than the root, and that something exists inside
\* canonical_root and can be stat'd.
FreshnessAnswerable ==
    /\ FreshnessParam.ok
    /\ NUL \notin Range(FreshnessParam.val)
    /\ ~Escapes(FreshnessParam.val)
    /\ normalize_path(FreshnessParam.val).parts # <<>>
    /\ FreshnessTarget.ok
    /\ StartsWith(FreshnessTarget.path, canonical_root)
    /\ Metadata(fs, FreshnessTarget.path).ok

\* C16: the freshness endpoint answers 200 application/json {"mtime":secs}
\* exactly when the parameter is answerable, and 404 application/json
\* {"error":"not found"} in every other case.
C16_FreshnessAnswers ==
    FreshnessRequested =>
        IF FreshnessAnswerable
        THEN /\ resp.status = 200
             /\ resp.content_type = "application/json"
             /\ BodyBytes(resp.body) =
                    <<123, 34, 109, 116, 105, 109, 101, 34, 58>> \o Decimal(fs[FreshnessTarget.path].mtime.secs) \o <<125>>
        ELSE /\ resp.status = 404
             /\ resp.content_type = "application/json"
             /\ BodyBytes(resp.body) = <<123, 34, 101, 114, 114, 111, 114, 34, 58, 34, 110, 111, 116, 32, 102, 111, 117, 110, 100, 34, 125>>

\* C16: path=x.md, a symlink inside the root to a file outside it, has
\* been answered 404.
C16_OutsideRootIsJson404 ==
    /\ FreshnessRequested
    /\ req.query = <<112, 97, 116, 104, 61, 120, 46, 109, 100>>
    /\ FreshnessTarget.ok /\ ~StartsWith(FreshnessTarget.path, canonical_root)
    /\ resp.status = 404

\* The request resolved to nothing: not a file, not a directory, no
\* <candidate>.md.
NotFoundAt ==
    /\ ReachedResolution
    /\ ExpectedResolution(fs, RequestCandidate).branch = "not-found"

\* The proper ancestors of the requested path, by length, that are
\* directories with a canonical form inside canonical_root.
ServableAncestors ==
    {k \in 1..(Len(RequestCandidate) - 1) :
        LET dir == SubSeq(RequestCandidate, 1, k)
        IN  /\ IsDir(fs, dir)
            /\ StartsWith(Canonicalize(fs, dir).path, canonical_root)}

\* The deepest of them in canonical form; canonical_root when there is none.
ExpectedNearest ==
    IF ServableAncestors = {} THEN canonical_root
    ELSE Canonicalize(fs, SubSeq(RequestCandidate, 1, MaxOf(ServableAncestors))).path

DirUrl(dir) ==
    IF dir = canonical_root THEN <<SLASH>>
    ELSE Append(derive_entry_url_path(dir, canonical_root).val, SLASH)

\* C19: a request that resolves to nothing is answered 404 text/html; the
\* directory the page links to and lists is the deepest existing ancestor
\* of the requested path whose canonical form is inside canonical_root
\* (canonical_root failing that), and it is a directory inside the root.
C19_RichNotFoundNearestParent ==
    NotFoundAt =>
        LET nearest == nearest_existing_parent(fs, SubSeq(RequestCandidate, Len(serve_root) + 1,
                                                          Len(RequestCandidate)))
        IN  /\ resp.status = 404
            /\ resp.content_type = "text/html; charset=utf-8"
            /\ nearest = ExpectedNearest
            /\ IsDir(fs, nearest) /\ StartsWith(nearest, canonical_root)
            /\ Len(resp.body) >= 5
            /\ resp.body[4] = Part("href", TRUE, html_escape_text(DirUrl(ExpectedNearest)))
            /\ SubSeq(resp.body, 6, Len(resp.body)) =
                   build_nearest_parent_listing(fs, ExpectedNearest, DirUrl(ExpectedNearest))

\* C19: a missing path under a directory symlink that leaves the root has
\* been answered with the root as nearest parent.
C19_WalkSkipsOutsideDirectory ==
    /\ NotFoundAt
    /\ Len(RequestCandidate) = Len(serve_root) + 2
    /\ IsDir(fs, Front(RequestCandidate))
    /\ ~StartsWith(Canonicalize(fs, Front(RequestCandidate)).path, canonical_root)
    /\ resp.status = 404
    /\ resp.body[4] = Part("href", TRUE, <<SLASH>>)

----------------------------------------------------------------------------
(* The serving process.  axum::serve accepts connections and runs one      *)
(* handler task per request, all holding the same Arc<AppState>; files     *)
(* are edited meanwhile; SIGINT starts the graceful shutdown.  A request   *)
(* in flight is `received` until its handler has run and `answered` until  *)
(* its response has been written out.                                      *)

MaxConns == 2

Conns == 1..MaxConns

LiveRequests ==
    { Request(<<47, 98, 46, 109, 100>>, <<>>, NoHeader, NoHeader),
      Request(FRESHNESS_ROUTE, <<112, 97, 116, 104, 61, 97, 46, 109, 100>>, NoHeader, NoHeader) }

\* a.md as it is at startup, and a.md with a link to b.md.
LiveEdits ==
    { FileNode(<<104, 105>>, 2, Time(1, 0)),
      FileNode(<<91, 98, 93, 40, 98, 46, 109, 100, 41>>, 9, Time(2, 0)) }

\* A handler that re-reads the tree for its backlinks.
state_backlinks_rebuilt(f, index) == build_backlinks_index(f)

\* state.backlinks as a handler reads it through its Arc<AppState>.
state_backlinks(f, index) == index

LiveInit ==
    /\ fs = InitialTree
    /\ backlinks = build_backlinks_index(InitialTree)
    /\ pc = "serving"
    /\ req = NoRequest
    /\ resp = NoResponse
    /\ NoRender
    /\ NoConnections
    /\ NoViewer
    /\ NoWalk
    /\ StartedPlainly

\* A connection is accepted and its request read.
Accept ==
    /\ pc = "serving"
    /\ \E c \in Conns \ DOMAIN inflight, r \in LiveRequests :
         inflight' = [k \in DOMAIN inflight \cup {c} |->
                        IF k = c THEN [req |-> r, stage |-> "received",
                                       observed |-> <<>>, resp |-> NoResponse]
                        ELSE inflight[k]]
    /\ UNCHANGED <<serveVars, renderVars, procVars, viewerVars, effectVars, walkVars>>

\* The handler task of a request runs.
Handle ==
    /\ pc \in {"serving", "draining"}
    /\ \E c \in DOMAIN inflight :
         /\ inflight[c].stage = "received"
         /\ LET index == state_backlinks(fs, backlinks)
            IN  inflight' = [inflight EXCEPT ![c] =
                    [req |-> @.req, stage |-> "answered", observed |-> index,
                     resp |-> Router(fs, index, @.req)]]
    /\ UNCHANGED <<serveVars, renderVars, procVars, viewerVars, effectVars, walkVars>>

\* The response has been written; the request is over.
Complete ==
    /\ pc \in {"serving", "draining"}
    /\ \E c \in DOMAIN inflight :
         /\ inflight[c].stage = "answered"
         /\ inflight' = [k \in DOMAIN inflight \ {c} |-> inflight[k]]
    /\ UNCHANGED <<serveVars, renderVars, procVars, viewerVars, effectVars, walkVars>>

\* Another process rewrites a.md while the server runs.
LiveEdit ==
    /\ pc \in {"serving", "draining"}
    /\ \E node \in LiveEdits :
         /\ fs[entry_file] # node
         /\ fs' = [fs EXCEPT ![entry_file] = node]
    /\ UNCHANGED <<backlinks, pc, req, resp, renderVars, procVars, viewerVars, effectVars, walkVars, connVars>>

\* SIGINT arrives: the shutdown future of line 1680 resolves and the
\* listener is closed.
Sigint ==
    /\ pc = "serving"
    /\ pc' = "draining"
    /\ UNCHANGED <<fs, backlinks, req, resp, renderVars, procVars, viewerVars, effectVars, walkVars, connVars>>

\* A shutdown that does not wait for the connections.
Shutdown_abrupt ==
    /\ pc = "draining"
    /\ pc' = "exited"
    /\ exit_status' = <<0>>
    /\ UNCHANGED <<fs, backlinks, req, resp, renderVars, envVars, viewerVars, effectVars, walkVars, connVars>>
    /\ UNCHANGED <<app_state, stdout, port, bind_log, bind_result>>

\* Every connection is done: axum::serve returns, run_serve returns Ok(()).
Shutdown ==
    /\ pc = "draining"
    /\ inflight = <<>>
    /\ pc' = "exited"
    /\ exit_status' = <<0>>
    /\ UNCHANGED <<fs, backlinks, req, resp, renderVars, envVars, viewerVars, effectVars, walkVars, connVars>>
    /\ UNCHANGED <<app_state, stdout, port, bind_log, bind_result>>

LiveNext ==
    \/ Accept
    \/ Handle
    \/ Complete
    \/ LiveEdit
    \/ Sigint
    \/ Shutdown

SpecLive == LiveInit /\ [][LiveNext]_vars

\* ENABLED <<Handle>>_vars: a handler answers whatever the request, so
\* Handle can act exactly when some request waits for its handler.
HandlePending ==
    /\ pc \in {"serving", "draining"}
    /\ \E c \in DOMAIN inflight : inflight[c].stage = "received"

\* Handler tasks are scheduled by the runtime, responses are taken by
\* their clients, and axum::serve returns once no connection is left:
\* weak fairness of Handle (its ENABLED written out as HandlePending), of
\* Complete and of Shutdown.
SpecLiveFair ==
    /\ SpecLive
    /\ ([]<>~HandlePending \/ []<><<Handle>>_vars)
    /\ WF_vars(Complete)
    /\ WF_vars(Shutdown)

----------------------------------------------------------------------------
(* Properties of the serving process. *)

StartupIndex == build_backlinks_index(InitialTree)

Answered(c) == c \in DOMAIN inflight /\ inflight[c].stage = "answered"

\* C17: while requests are accepted, handled and completed in any order
\* and files are edited, the Serve Context and the Backlinks Index stay as
\* startup left them, and every handler has read that index.
C17_StateImmutableAfterStartup ==
    /\ backlinks = StartupIndex
    /\ app_state = AppState(entry_file, serve_root, canonical_root, entry_file, entry_url_path)
    /\ \A c \in DOMAIN inflight : Answered(c) => inflight[c].observed = StartupIndex

\* C17: a.md has been given a link to b.md, and a request for /b.md handled
\* after that has read the startup index, which a rebuild would not give.
C17_StaleIndexObserved ==
    /\ fs[entry_file].data = <<91, 98, 93, 40, 98, 46, 109, 100, 41>>
    /\ \E c \in DOMAIN inflight :
         /\ Answered(c)
         /\ inflight[c].req.path = <<47, 98, 46, 109, 100>>
         /\ inflight[c].observed = backlinks
    /\ Cardinality(DOMAIN inflight) = MaxConns
    /\ build_backlinks_index(fs) # backlinks

----------------------------------------------------------------------------
(* Local links, as the renderer rewrites them (html.rs) and as the indexer *)
(* files them (backlinks.rs).                                              *)

QUESTION == 63
HASH == 35

\* split_url_suffix: the URL up to, and from, its first `?` or `#`.
split_url_suffix(url) ==
    LET hits == {i \in 1..Len(url) : url[i] = QUESTION \/ url[i] = HASH}
    IN  IF hits = {} THEN [base |-> url, suffix |-> <<>>]
        ELSE LET pos == MinOf(hits)
             IN  [base |-> SubSeq(url, 1, pos - 1), suffix |-> SubSeq(url, pos, Len(url))]

\* resolve_relative_path: `.` and empty components are skipped, `..` pops
\* (PathBuf::pop at the root pops nothing), a name is pushed.
RECURSIVE ResolveFrom(_, _, _)
ResolveFrom(comps, i, resolved) ==
    IF i > Len(comps) THEN resolved
    ELSE IF comps[i] = <<>> \/ comps[i] = <<DOT>> THEN ResolveFrom(comps, i + 1, resolved)
    ELSE IF comps[i] = <<DOT, DOT>>
    THEN ResolveFrom(comps, i + 1, IF resolved = <<>> THEN resolved ELSE Front(resolved))
    ELSE ResolveFrom(comps, i + 1, Append(resolved, comps[i]))

resolve_relative_path(file_dir, rel) == ResolveFrom(Split(rel, SLASH), 1, file_dir)

\* The prefixes rewrite_url leaves alone.
RewriteSkips == {<<104, 116, 116, 112, 58, 47, 47>>, <<104, 116, 116, 112, 115, 58, 47, 47>>, <<47, 47>>, <<109, 97, 105, 108, 116, 111, 58>>, <<35>>, <<47>>}

\* rewrite_url: Some(root-relative URL) for a local link, None otherwise.
rewrite_url(url, file_dir, root) ==
    IF \E prefix \in RewriteSkips : StartsWith(url, prefix) THEN None
    ELSE LET split == split_url_suffix(url)
             resolved == resolve_relative_path(file_dir, split.base)
         IN  IF split.base = <<>> THEN None
             ELSE IF ~StartsWith(resolved, root) THEN None
             ELSE Some(<<SLASH>> \o Display(SubSeq(resolved, Len(root) + 1, Len(resolved)))
                       \o split.suffix)

\* The destinations a document's links are drawn from.
LinkDestinations ==
    { <<113, 46, 109, 100>>, <<46, 47, 113, 46, 109, 100>>, <<113, 46, 109, 100, 35, 98>>, <<113, 46, 109, 100, 63, 120, 61, 49>>, <<113, 46, 109, 100, 63, 120, 61, 49, 35, 98>>,
      <<115, 117, 98, 47, 114, 46, 109, 100>>, <<115, 117, 98, 47, 46, 46, 47, 113, 46, 109, 100>>, <<46, 46, 47, 113, 46, 109, 100>>, <<46, 46, 47, 115, 117, 98, 47, 114, 46, 109, 100, 35, 99>>,
      <<46, 46, 47, 46, 46, 47, 112, 46, 109, 100>>, <<46, 46, 47, 46, 46, 47, 46, 46, 47, 115, 114, 118, 47, 113, 46, 109, 100>>,
      <<47, 113, 46, 109, 100>>, <<47, 115, 117, 98, 47, 114, 46, 109, 100, 35, 99>>, <<47, 47, 104, 111, 115, 116, 47, 120, 46, 109, 100>>,
      <<104, 116, 116, 112, 58, 47, 47, 104, 47, 113, 46, 109, 100>>, <<104, 116, 116, 112, 115, 58, 47, 47, 104, 47, 113, 46, 109, 100>>, <<72, 84, 84, 80, 58, 47, 47, 104, 47, 113, 46, 109, 100>>, <<104, 116, 116, 112, 58, 113, 46, 109, 100>>,
      <<102, 116, 112, 58, 47, 47, 104, 47, 113, 46, 109, 100>>, <<109, 97, 105, 108, 116, 111, 58, 97, 64, 98>>, <<77, 65, 73, 76, 84, 79, 58, 97, 64, 98>>, <<35, 116, 111, 112>>, <<63, 120, 61, 49>>,
      <<113>>, <<99, 32, 99, 46, 109, 100>>, <<115, 117, 98, 47>> }

\* The documents the link stands in.
LinkSources == {<<N_srv, N_a_md>>, <<N_srv, N_sub, N_r_md>>}

LinkInit ==
    /\ fs = InitialTree
    /\ backlinks = <<>>
    /\ pc = "links"
    /\ req = NoRequest
    /\ resp = NoResponse
    /\ headings = <<>> /\ heading_entries = <<>> /\ slug_counter = <<>>
    /\ link \in [dest : LinkDestinations, source_path : LinkSources]
    /\ rewritten = <<>>
    /\ outbound = <<>>
    /\ NoConnections
    /\ NoViewer
    /\ NoWalk
    /\ StartedPlainly

\* rewrite_local_links reaches the link: file_dir is the document's parent.
RewriteLink ==
    /\ pc = "links"
    /\ rewritten = <<>>
    /\ rewritten' = <<rewrite_url(link.dest, Front(link.source_path), serve_root)>>
    /\ UNCHANGED <<serveVars, headings, heading_entries, slug_counter, link, outbound,
                   procVars, viewerVars, effectVars, walkVars, connVars>>

\* extract_outbound_links reaches the same link.
IndexLink ==
    /\ pc = "links"
    /\ outbound = <<>>
    /\ outbound' = <<OutboundRef(link.dest, link.source_path, <<>>)>>
    /\ UNCHANGED <<serveVars, headings, heading_entries, slug_counter, link, rewritten,
                   procVars, viewerVars, effectVars, walkVars, connVars>>

LinkNext == RewriteLink \/ IndexLink

SpecLinks == LinkInit /\ [][LinkNext]_vars

\* Both have seen the link.
LinkSettled == pc = "links" /\ rewritten # <<>> /\ outbound # <<>>

\* The path of a rewritten URL, without its `?...` or `#...` suffix.
RewrittenTarget == split_url_suffix(rewritten[1].val).base

\* C21: the indexer files a link exactly when the renderer rewrites it, and
\* under the key of the path the renderer rewrites it to.
C21_IndexerAgreesWithRenderer ==
    LinkSettled =>
        /\ outbound[1].some <=> rewritten[1].some
        /\ outbound[1].some => outbound[1].target_url_path = RewrittenTarget

\* C21: /sub/r.md#c in a.md: the renderer leaves the root-absolute link as
\* it is, the indexer files it under /sub/r.md.
C21_RootAbsoluteLinkIsIndexed ==
    /\ LinkSettled
    /\ link.dest = <<47, 115, 117, 98, 47, 114, 46, 109, 100, 35, 99>>
    /\ ~rewritten[1].some
    /\ outbound[1].some
    /\ outbound[1].target_url_path = <<47, 115, 117, 98, 47, 114, 46, 109, 100>>

----------------------------------------------------------------------------
(* The size guard of serve_handler, step by step: the file is stat'ed      *)
(* (line 1229), then read whole (lines 1250 and 1342), and other processes *)
(* write to it in between.                                                 *)

\* The files requested: a markdown file and a static asset.
GuardedFiles == {canonical_root \o <<N_h_md>>, canonical_root \o <<N_f, N_g_bin>>}

\* The lengths another process gives them.
GuardSizes == {1, MAX_FILE_SIZE, MAX_FILE_SIZE + 1}

GuardInit ==
    /\ fs = InitialTree
    /\ backlinks = build_backlinks_index(InitialTree)
    /\ pc = "guarding"
    /\ req = NoRequest
    /\ resp = NoResponse
    /\ NoRender
    /\ NoConnections
    /\ NoViewer
    /\ NoWalk
    /\ StartedPlainly

\* A request has been resolved to `canonical`, inside the root.
GuardAccept ==
    /\ pc = "guarding"
    /\ \E c \in Conns \ DOMAIN inflight, canonical \in GuardedFiles :
         inflight' = [k \in DOMAIN inflight \cup {c} |->
                        IF k = c THEN [canonical |-> canonical, stage |-> "resolved",
                                       size |-> 0, buffered |-> 0, status |-> 0]
                        ELSE inflight[k]]
    /\ UNCHANGED <<serveVars, renderVars, procVars, viewerVars, effectVars, walkVars>>

\* tokio::fs::metadata and the guard `size > MAX_FILE_SIZE`.
StatFile ==
    /\ pc = "guarding"
    /\ \E c \in DOMAIN inflight :
         /\ inflight[c].stage = "resolved"
         /\ LET size == fs[inflight[c].canonical].size
            IN  inflight' = [inflight EXCEPT ![c] =
                    IF TooLarge(size)
                    THEN [@ EXCEPT !.stage = "answered", !.size = size, !.status = 413]
                    ELSE [@ EXCEPT !.stage = "admitted", !.size = size]]
    /\ UNCHANGED <<serveVars, renderVars, procVars, viewerVars, effectVars, walkVars>>

\* tokio::fs::read_to_string / tokio::fs::read: the whole file as it is now
\* goes into the buffer the response body is made from.
ReadFile ==
    /\ pc = "guarding"
    /\ \E c \in DOMAIN inflight :
         /\ inflight[c].stage = "admitted"
         /\ inflight' = [inflight EXCEPT ![c] =
                 [@ EXCEPT !.stage = "answered",
                           !.buffered = fs[inflight[c].canonical].size,
                           !.status = 200]]
    /\ UNCHANGED <<serveVars, renderVars, procVars, viewerVars, effectVars, walkVars>>

\* The response has been written.
GuardComplete ==
    /\ pc = "guarding"
    /\ \E c \in DOMAIN inflight :
         /\ inflight[c].stage = "answered"
         /\ inflight' = [k \in DOMAIN inflight \ {c} |-> inflight[k]]
    /\ UNCHANGED <<serveVars, renderVars, procVars, viewerVars, effectVars, walkVars>>

\* Another process rewrites a file, at any length.
FileWrite ==
    /\ pc = "guarding"
    /\ \E path \in GuardedFiles, size \in GuardSizes :
         /\ fs[path].size # size
         /\ fs' = [fs EXCEPT ![path] = FileNode(fs[path].data, size, fs[path].mtime)]
    /\ UNCHANGED <<backlinks, pc, req, resp, renderVars, procVars, viewerVars, effectVars, walkVars, connVars>>

GuardNext ==
    \/ GuardAccept
    \/ StatFile
    \/ ReadFile
    \/ GuardComplete
    \/ FileWrite

SpecGuard == GuardInit /\ [][GuardNext]_vars

\* C22: no request has more than MAX_FILE_SIZE bytes of a file in its
\* buffer, whatever other processes write and whenever they write it.
C22_BufferWithinLimit ==
    pc = "guarding" =>
        \A c \in DOMAIN inflight : inflight[c].buffered <= MAX_FILE_SIZE

\* C22: a file was within the limit at the stat and over it at the read.
C22_GrownBetweenStatAndRead ==
    /\ pc = "guarding"
    /\ \E c \in DOMAIN inflight :
         /\ inflight[c].status = 200
         /\ inflight[c].size <= MAX_FILE_SIZE
         /\ inflight[c].buffered > MAX_FILE_SIZE

----------------------------------------------------------------------------
(* build_backlinks_index turn by turn of its `while let Some(dir)` loop,   *)
(* over trees with symlinks.                                               *)

N_up == <<117, 112>>
N_back == <<98, 97, 99, 107>>
N_ext == <<101, 120, 116>>

\* Three documents under the root and one outside it, which links to q.md
\* both ways it can be reached.
WalkBase ==
    (<<>> :> DirNode)
    @@ (serve_root :> DirNode)
    @@ (serve_root \o <<N_p_md>> :> IndexFile(<<115, 101, 101, 32, 91, 113, 93, 40, 113, 46, 109, 100, 35, 97, 41, 32, 104, 101, 114, 101>>))
    @@ (serve_root \o <<N_q_md>> :> IndexFile(<<104, 105>>))
    @@ (serve_root \o <<N_sub>> :> DirNode)
    @@ (serve_root \o <<N_sub, N_r_md>> :> IndexFile(<<91, 113, 93, 40, 46, 46, 47, 113, 46, 109, 100, 41>>))
    @@ (OutsideDir :> DirNode)
    @@ (OutsideDir \o <<N_p_md>> :> IndexFile(<<115, 101, 99, 114, 101, 116, 32, 91, 97, 93, 40, 46, 46, 47, 113, 46, 109, 100, 41, 32, 97, 110, 100, 32, 91, 98, 93, 40, 113, 46, 109, 100, 41>>))

\* The symlinks a tree may hold: to the root from the root and from sub,
\* to the outside directory, to the outside file.
WalkLinks ==
    { [path |-> serve_root \o <<N_up>>, target |-> serve_root],
      [path |-> serve_root \o <<N_sub, N_back>>, target |-> serve_root],
      [path |-> serve_root \o <<N_ext>>, target |-> OutsideDir],
      [path |-> serve_root \o <<N_x_md>>, target |-> OutsideDir \o <<N_p_md>>] }

WalkTree(links) ==
    [p \in DOMAIN WalkBase \cup {l.path : l \in links} |->
        IF p \in DOMAIN WalkBase THEN WalkBase[p]
        ELSE LinkNode((CHOOSE l \in links : l.path = p).target)]

WalkInit ==
    /\ fs \in {WalkTree(links) : links \in SUBSET WalkLinks}
    /\ backlinks = <<>>
    /\ pc = "walking"
    /\ req = NoRequest
    /\ resp = NoResponse
    /\ NoRender
    /\ NoConnections
    /\ NoViewer
    /\ dir_queue = <<serve_root>>
    /\ file_reads = <<>>
    /\ launch = DefaultLaunch
    /\ stdin = Stdin(TRUE, <<>>)
    /\ os_ports = OsPorts(0, "ok")
    /\ tailscale = None
    /\ NotStarted

\* The entries of `dir` that fs::read_to_string is called on and returns
\* the content of: not a directory, extension md or markdown, readable.
ReadsIn(f, dir, names) ==
    SelectSeq([i \in 1..Len(names) |-> Append(dir, names[i])],
              LAMBDA path : /\ ~IsDir(f, path)
                            /\ Extension(Last(path)).ext \in {EXT_md, EXT_markdown}
                            /\ IsFile(f, path))

\* One turn of the loop: the front directory is popped and read, its
\* directories are queued, its markdown files read and filed.
WalkDir ==
    /\ pc = "walking"
    /\ dir_queue # <<>>
    /\ LET dir == Head(dir_queue)
           names == SortNames(ReadDir(fs, dir).names)
           subdirs == SelectSeq(names,
                        LAMBDA n : IsDir(fs, Append(dir, n)) /\ n \notin SkippedDirs)
       IN  /\ dir_queue' = Tail(dir_queue) \o [i \in 1..Len(subdirs) |-> Append(dir, subdirs[i])]
           /\ file_reads' = file_reads \o ReadsIn(fs, dir, names)
           /\ backlinks' = IndexFiles(fs, dir, names, 1, backlinks)
    /\ UNCHANGED <<fs, pc, req, resp, renderVars, procVars, viewerVars, effectVars, connVars>>

\* The queue is empty: the loop ends and the index is returned.
WalkDone ==
    /\ pc = "walking"
    /\ dir_queue = <<>>
    /\ pc' = "indexed"
    /\ UNCHANGED <<fs, backlinks, req, resp, renderVars, procVars, viewerVars, effectVars, connVars, walkVars>>

WalkNext == WalkDir \/ WalkDone

SpecWalk == WalkInit /\ [][WalkNext]_vars

\* The file a read path leads to.
ReadTarget(path) == Canonicalize(fs, path).path

\* The markdown files of the tree, wherever they are.
TreeMarkdownFiles ==
    {p \in DOMAIN fs : fs[p].kind = "file" /\ Extension(Last(p)).ext \in {EXT_md, EXT_markdown}}

\* The Backlink References of the index.
IndexRefs == UNION {Range(backlinks[target]) : target \in DOMAIN backlinks}

\* C23: while the index is built no file is read twice, and the index has
\* no more source documents than the tree has markdown files.
C23_EachFileReadOnce ==
    pc \in {"walking", "indexed"} /\ file_reads # <<>> =>
        /\ \A i, j \in 1..Len(file_reads) :
             ReadTarget(file_reads[i]) = ReadTarget(file_reads[j]) => i = j
        /\ Cardinality({ref.source_url_path : ref \in IndexRefs})
             <= Cardinality(TreeMarkdownFiles)

\* C23: with up -> the root, q.md has been read as q.md and as up/q.md.
C23_ReadAgainThroughAncestorLink ==
    /\ pc = "indexed"
    /\ \E i, j \in 1..Len(file_reads) :
         /\ file_reads[i] = serve_root \o <<N_q_md>>
         /\ file_reads[j] = serve_root \o <<N_up, N_q_md>>

\* The file a Backlink Reference was taken from.
SourceFileOf(ref) ==
    serve_root \o SelectSeq(Split(ref.source_url_path, SLASH), LAMBDA name : name # <<>>)

\* C27: every file the indexer reads, and every file a Backlink Reference
\* names as its source, has its canonical path inside canonical_root.
C27_SourcesInsideRoot ==
    pc \in {"walking", "indexed"} =>
        /\ \A i \in 1..Len(file_reads) :
             StartsWith(ReadTarget(file_reads[i]), canonical_root)
        /\ \A ref \in IndexRefs :
             StartsWith(ReadTarget(SourceFileOf(ref)), canonical_root)

\* C27: with ext -> the outside directory, q.md has a Backlink Reference
\* whose source is ext/p.md and whose snippet is text of the outside file.
C27_OutsideFileIsASource ==
    /\ pc = "indexed"
    /\ <<47, 113, 46, 109, 100>> \in DOMAIN backlinks
    /\ \E ref \in Range(backlinks[<<47, 113, 46, 109, 100>>]) :
         /\ ref.source_url_path = <<47, 101, 120, 116, 47, 112, 46, 109, 100>>
         /\ ReadTarget(SourceFileOf(ref)) = OutsideDir \o <<N_p_md>>
         /\ StartsWith(ref.snippet, <<115, 101, 99, 114, 101, 116>>)

----------------------------------------------------------------------------
(* The order of the startup steps of run_serve.                            *)

\* The URL lines printed so far.
UrlLines == {i \in 1..Len(stdout) : IsUrlLine(stdout[i])}

\* The roots and the entry are settled: the working-directory check, with
\* its question when the entry is outside, is over (who may go on is C14).
RootsSettled == app_state.canonical_root # <<>> /\ app_state.entry_file # <<>>

C29_ReturnedPortIsBoundPort ==
    bind_result.ok =>
        /\ listener = <<bind_result.port>>
        /\ bind_result.port >= launch.start_port
        /\ bind_result.port <= launch.start_port + (MAX_PORT_ATTEMPTS - 1)
        /\ bind_result.port < U16
        /\ \A i \in UrlLines :
             stdout[i] = url_line(AnnouncedHost, listener[1], app_state.entry_url_path)

\* C29: started at port 65535, which is taken, the server serves on a port
\* the system chose while the URL line names port 0.
C29_UrlNamesPortZero ==
    /\ pc = "serving"
    /\ launch.start_port = U16 - 1
    /\ bind_result = BindOk(0)
    /\ listener[1] \in EphemeralPorts
    /\ stdout[Len(stdout)] = url_line(AnnouncedHost, 0, app_state.entry_url_path)

----------------------------------------------------------------------------
(* The backlinks panel under the aliases of a document.                    *)

\* A markdown document was rendered into a page.
PageRendered == pc = "responded" /\ PathRequest /\ resp.log.mode = "rendered" /\ resp.status = 200

\* The document that was served.
ServedDocument == Canonicalize(fs, resp.log.resolved).path

\* The Backlink References filed for it.
DocumentRefs ==
    LET key == source_url_path(ServedDocument)
    IN  IF key \in DOMAIN backlinks THEN backlinks[key] ELSE <<>>

\* The backlinks panel of the page: what follows the title, the two meta
\* values and the content.
ShownPanel == SubSeq(resp.body, 8, Len(resp.body))

\* C25: the backlinks panel of a rendered page is that of the document
\* served, whichever URL it was requested by.
C25_SameBacklinksUnderEveryAlias ==
    PageRendered => ShownPanel = build_backlinks_html(DocumentRefs)

\* C25: a.md, requested as /a, is rendered without the references filed
\* for it under /a.md.
C25_ExtensionlessAliasShowsNone ==
    /\ PageRendered
    /\ resp.log.resolved = entry_file
    /\ resp.log.branch # "exact"
    /\ resp.log.key = <<47, 97>>
    /\ DocumentRefs # <<>>
    /\ ShownPanel = build_backlinks_html(<<>>)

----------------------------------------------------------------------------
(* The freshness poll of a rendered page: the page carries mdmd-mtime and  *)
(* mdmd-path, and its client asks /_mdmd/freshness?path=<mdmd-path>.       *)

\* The character references html_escape writes, and what they stand for.
CharacterReferences ==
    { [ref |-> <<38, 97, 109, 112, 59>>, byte |-> AMP], [ref |-> <<38, 108, 116, 59>>, byte |-> 60],
      [ref |-> <<38, 103, 116, 59>>, byte |-> 62], [ref |-> <<38, 113, 117, 111, 116, 59>>, byte |-> DQUOTE],
      [ref |-> <<38, 35, 51, 57, 59>>, byte |-> 39] }

\* The value of an attribute as the client reads it.
RECURSIVE AttributeValue(_)
AttributeValue(s) ==
    IF s = <<>> THEN <<>>
    ELSE IF \E c \in CharacterReferences : StartsWith(s, c.ref)
    THEN LET c == CHOOSE c \in CharacterReferences : StartsWith(s, c.ref)
         IN  <<c.byte>> \o AttributeValue(SubSeq(s, Len(c.ref) + 1, Len(s)))
    ELSE <<Head(s)>> \o AttributeValue(Tail(s))

\* The two meta values of a page built by build_page_shell.
MdmdMtime(page) == page[4].bytes
MdmdPath(page) == AttributeValue(page[6].bytes)

\* The freshness request of the client of `page`.
PollRequest(page) ==
    Request(FRESHNESS_ROUTE, <<112, 97, 116, 104, 61>> \o percent_encode_segment(MdmdPath(page)),
            NoHeader, NoHeader)

\* The client of the page just rendered polls, the file untouched since.
Poll ==
    /\ pc = "responded"
    /\ resp.log.mode = "rendered" /\ resp.status = 200
    /\ inflight = <<>>
    /\ inflight' = (1 :> [req |-> PollRequest(resp.body), stage |-> "answered",
                          observed |-> backlinks,
                          resp |-> Router(fs, backlinks, PollRequest(resp.body))])
    /\ UNCHANGED <<serveVars, renderVars, procVars, viewerVars, effectVars, walkVars>>

\* Page and poll are over.
PollDeliver ==
    /\ pc = "responded"
    /\ pc' = "idle"
    /\ req' = NoRequest
    /\ resp' = NoResponse
    /\ inflight' = <<>>
    /\ UNCHANGED <<fs, backlinks, renderVars, procVars, viewerVars, effectVars, walkVars>>

PollNext ==
    \/ ServeRequest
    \/ Poll
    \/ PollDeliver
    \/ EnvWrite

SpecPoll == Init /\ [][PollNext]_vars

Polled == pc = "responded" /\ inflight # <<>>

\* C26: the poll of a rendered page is answered 200 with the mtime the page
\* carries.
C26_PollMatchesPage ==
    Polled =>
        /\ inflight[1].resp.status = 200
        /\ BodyBytes(inflight[1].resp.body) = <<123, 34, 109, 116, 105, 109, 101, 34, 58>> \o MdmdMtime(resp.body) \o <<125>>

\* C26: a.md was rendered for GET /a with mdmd-path a, and the poll for
\* path=a was answered 404.
C26_ExtensionlessPagePolls404 ==
    /\ Polled
    /\ req.path = <<47, 97>>
    /\ resp.log.resolved = entry_file
    /\ MdmdPath(resp.body) = <<97>>
    /\ inflight[1].resp.status = 404

----------------------------------------------------------------------------
(* HTML responses over trees whose names hold markup characters.           *)

MarkupDirNames == {<<60, 105, 62>>, <<97, 38, 98>>, <<34, 113, 34>>, <<105, 116, 39, 115>>, <<100, 111, 99, 115>>}
MarkupFileNames == {<<60, 98, 62, 46, 109, 100>>, <<120, 38, 121, 46, 109, 100>>, <<34, 122, 34, 46, 109, 100>>, <<110, 46, 109, 100>>}

\* A served tree with one directory and one document in it.
MarkupTree(dir_name, file_name) ==
    (<<>> :> DirNode)
    @@ (serve_root :> DirNode)
    @@ (serve_root \o <<N_a_md>> :> IndexFile(<<104, 105>>))
    @@ (serve_root \o <<dir_name>> :> DirNode)
    @@ (serve_root \o <<dir_name, file_name>> :> IndexFile(<<116, 101, 120, 116>>))

\* The URL of a path under the root, each name percent-encoded.
UrlOf(path) ==
    <<SLASH>> \o Join(EncodeAll(SubSeq(path, Len(serve_root) + 1, Len(path))), SLASH)

\* The root, every directory and file under it, and a missing name in
\* every directory.
MarkupPaths(f) ==
    LET under == {p \in DOMAIN f : StartsWith(p, serve_root)}
    IN  {UrlOf(p) : p \in under}
        \cup {UrlOf(Append(p, N_z)) : p \in {q \in under : f[q].kind = "dir"}}

MarkupInit ==
    /\ fs \in {MarkupTree(d, n) : d \in MarkupDirNames, n \in MarkupFileNames}
    /\ backlinks = build_backlinks_index(fs)
    /\ pc = "idle"
    /\ req = NoRequest
    /\ resp = NoResponse
    /\ NoRender
    /\ NoConnections
    /\ NoViewer
    /\ NoWalk
    /\ StartedPlainly

\* A GET for something in the tree, or next to it.
MarkupRequest ==
    /\ pc = "idle"
    /\ \E path \in MarkupPaths(fs) :
         /\ req' = Request(path, <<>>, NoHeader, NoHeader)
         /\ resp' = Router(fs, backlinks, req')
    /\ pc' = "responded"
    /\ UNCHANGED <<fs, backlinks, renderVars, procVars, viewerVars, effectVars, walkVars, connVars>>

MarkupNext == MarkupRequest \/ Deliver

SpecMarkup == MarkupInit /\ [][MarkupNext]_vars

\* The parts of a body made of a name, a request path or a link to one.
Interpolated(part) == part.src \in {"fs-name", "fs-path", "request-path", "href"}

\* `<`, `>` and `"`.
MarkupBytes == {60, 62, DQUOTE}

\* C28: in an HTML response every file name, directory name and request
\* path has gone through HTML escaping, and none brings a `<`, `>` or `"`
\* of its own into the body.
C28_NamesAndPathsEscaped ==
    (Responded /\ resp.content_type = "text/html; charset=utf-8") =>
        \A i \in 1..Len(resp.body) :
            Interpolated(resp.body[i]) =>
                /\ resp.body[i].esc
                /\ Range(resp.body[i].bytes) \cap MarkupBytes = {}

\* C28: the index of the directory <i> has its name in the body as it is.
C28_DirectoryIndexHoldsMarkup ==
    /\ Responded
    /\ resp.log.mode = "directory_index"
    /\ resp.content_type = "text/html; charset=utf-8"
    /\ \E i \in 1..Len(resp.body) :
         /\ resp.body[i].src = "request-path"
         /\ resp.body[i].bytes = <<47, 60, 105, 62>>

----------------------------------------------------------------------------
(* The terminal viewer (main.rs, run): the document shown, its scroll      *)
(* offset and focused link, and the stack of documents left by Enter.      *)

\* Most entries the navigation stack takes in the model.
MaxHistory == 2

\* Rows of the terminal below the status line.
ViewportHeight == 1

N_c_md == <<99, 46, 109, 100>>

\* Three documents that link to each other, one link to a line.
ViewerFiles ==
    (serve_root \o <<N_a_md>> :> IndexFile(<<91, 98, 93, 40, 98, 46, 109, 100, 41, 10, 91, 99, 93, 40, 99, 46, 109, 100, 41>>))
    @@ (serve_root \o <<N_b_md>> :> IndexFile(<<91, 97, 93, 40, 97, 46, 109, 100, 41, 10, 91, 120, 93, 40, 104, 116, 116, 112, 115, 58, 47, 47, 120, 46, 121, 41, 10, 91, 116, 93, 40, 116, 46, 116, 120, 116, 41>>))
    @@ (serve_root \o <<N_c_md>> :> IndexFile(<<91, 98, 93, 40, 98, 46, 109, 100, 35, 115, 41>>))

ViewerTree == (<<>> :> DirNode) @@ (serve_root :> DirNode) @@ ViewerFiles

MarkdownExtensions == {<<109, 100>>, <<109, 97, 114, 107, 100, 111, 119, 110>>, <<109, 100, 120>>, <<109, 100, 111, 119, 110>>, <<109, 107, 100>>, <<109, 107, 100, 110>>}

is_external_url(url) ==
    \E prefix \in {<<104, 116, 116, 112, 58, 47, 47>>, <<104, 116, 116, 112, 115, 58, 47, 47>>, <<109, 97, 105, 108, 116, 111, 58>>} : StartsWith(url, prefix)

\* resolve_markdown_link: the markdown file a link of the current document
\* names, if there is one.
resolve_markdown_link(f, current_file, url) ==
    LET path_part == Head(Split(url, HASH))
        target == Front(current_file) \o Split(path_part, SLASH)
        c == Canonicalize(f, target)
    IN  IF url = <<>> \/ Head(url) = HASH \/ path_part = <<>> THEN None
        ELSE IF Extension(Last(target)).ext \notin MarkdownExtensions THEN None
        ELSE IF IsFile(f, target) THEN Some(IF c.ok THEN c.path ELSE target)
        ELSE None

\* The document as run holds it after parse and render_document: its
\* links in order (link k on line k - 1) and its number of lines.
Rendered(source) ==
    [links |-> LinkDests(source, 1),
     total_lines |-> Cardinality({i \in 1..Len(source) : source[i] = 10}) + 1]

NavigationEntry(file_path, scroll_offset, focused_link) ==
    [file_path |-> file_path, scroll_offset |-> scroll_offset, focused_link |-> focused_link]

max_scroll(v) == IF v.total_lines > ViewportHeight THEN v.total_lines - ViewportHeight ELSE 0

\* Lines 373-377: on every event the scroll offset is clamped.
Clamped(v) ==
    [v EXCEPT !.scroll_offset = IF @ < max_scroll(v) THEN @ ELSE max_scroll(v)]

\* The scroll offset that brings `line` into view.
ScrollTo(v, line) ==
    IF line < v.scroll_offset \/ line >= v.scroll_offset + ViewportHeight
    THEN LET want == IF line > ViewportHeight \div 3 THEN line - ViewportHeight \div 3 ELSE 0
         IN  IF want < max_scroll(v) THEN want ELSE max_scroll(v)
    ELSE v.scroll_offset

ViewerInit ==
    /\ fs = ViewerTree
    /\ backlinks = <<>>
    /\ pc = "viewing"
    /\ req = NoRequest
    /\ resp = NoResponse
    /\ NoRender
    /\ NoConnections
    /\ NoWalk
    /\ launch = DefaultLaunch
    /\ stdin = Stdin(TRUE, <<>>)
    /\ os_ports = OsPorts(0, "ok")
    /\ tailscale = None
    /\ NotStarted
    /\ LET first == Rendered(ViewerFiles[serve_root \o <<N_a_md>>].data)
       IN  viewer = [current_path |-> serve_root \o <<N_a_md>>, links |-> first.links,
                     total_lines |-> first.total_lines, scroll_offset |-> 0,
                     focused_link |-> <<>>, nav_stack |-> <<>>, key |-> ""]

ViewerUnchanged ==
    UNCHANGED <<backlinks, pc, req, resp, renderVars, procVars, connVars, walkVars, effectVars>>

\* j / Down: one line down.
KeyDown ==
    /\ pc = "viewing"
    /\ LET v == Clamped(viewer)
       IN  viewer' = [v EXCEPT !.scroll_offset = IF @ + 1 < max_scroll(v) THEN @ + 1
                                                 ELSE max_scroll(v),
                               !.focused_link = <<>>, !.key = "Down"]
    /\ UNCHANGED fs
    /\ ViewerUnchanged

\* Tab: the next link gets the focus and is scrolled into view.
KeyTab ==
    /\ pc = "viewing"
    /\ LET v == Clamped(viewer)
           num_links == Len(v.links)
           at_or_after == {k \in 0..(num_links - 1) : k >= v.scroll_offset}
           next == IF v.focused_link # <<>> THEN (v.focused_link[1] + 1) % num_links
                   ELSE IF at_or_after = {} THEN 0 ELSE MinOf(at_or_after)
       IN  viewer' = IF num_links > 0
                     THEN [v EXCEPT !.focused_link = <<next>>,
                                    !.scroll_offset = ScrollTo(v, next), !.key = "Tab"]
                     ELSE [v EXCEPT !.key = "Tab"]
    /\ UNCHANGED fs
    /\ ViewerUnchanged

\* The viewer after Enter.
Followed(f, v) ==
    LET url == v.links[v.focused_link[1] + 1]
        target == resolve_markdown_link(f, v.current_path, url)
        new == Rendered(Metadata(f, target.val).node.data)
    IN  IF v.focused_link = <<>> \/ v.focused_link[1] >= Len(v.links) THEN v
        ELSE IF is_external_url(url) THEN v
        ELSE IF ~target.some \/ ~IsFile(f, target.val) THEN v
        ELSE [current_path |-> target.val, links |-> new.links,
              total_lines |-> new.total_lines, scroll_offset |-> 0, focused_link |-> <<>>,
              nav_stack |-> Append(v.nav_stack,
                                   NavigationEntry(v.current_path, v.scroll_offset,
                                                   v.focused_link)),
              key |-> v.key]

\* Enter: the focused link is followed and the document left is pushed.
KeyEnter ==
    /\ pc = "viewing"
    /\ LET after == Followed(fs, Clamped(viewer))
       IN  /\ Len(after.nav_stack) <= MaxHistory
           /\ viewer' = [after EXCEPT !.key = "Enter"]
    /\ UNCHANGED fs
    /\ ViewerUnchanged

\* The viewer after Backspace: the top entry is popped, and shown if its
\* file can be read.
GoneBack(f, v) ==
    LET entry == Last(v.nav_stack)
        new == Rendered(Metadata(f, entry.file_path).node.data)
    IN  IF v.nav_stack = <<>> THEN v
        ELSE IF ~IsFile(f, entry.file_path)
        THEN [v EXCEPT !.nav_stack = Front(v.nav_stack)]
        ELSE [current_path |-> entry.file_path, links |-> new.links,
              total_lines |-> new.total_lines, scroll_offset |-> entry.scroll_offset,
              focused_link |-> entry.focused_link, nav_stack |-> Front(v.nav_stack),
              key |-> v.key]

KeyBackspace ==
    /\ pc = "viewing"
    /\ viewer' = [GoneBack(fs, Clamped(viewer)) EXCEPT !.key = "Backspace"]
    /\ UNCHANGED fs
    /\ ViewerUnchanged

\* Another process removes a document, or puts it back.
FileRemove ==
    /\ pc = "viewing"
    /\ \E path \in DOMAIN ViewerFiles \cap DOMAIN fs :
         fs' = [p \in DOMAIN fs \ {path} |-> fs[p]]
    /\ UNCHANGED viewer
    /\ ViewerUnchanged

FileRestore ==
    /\ pc = "viewing"
    /\ \E path \in DOMAIN ViewerFiles \ DOMAIN fs :
         fs' = [p \in DOMAIN fs \cup {path} |-> IF p = path THEN ViewerFiles[p] ELSE fs[p]]
    /\ UNCHANGED viewer
    /\ ViewerUnchanged

ViewerNext ==
    \/ KeyDown
    \/ KeyTab
    \/ KeyEnter
    \/ KeyBackspace
    \/ FileRemove
    \/ FileRestore

SpecViewer == ViewerInit /\ [][ViewerNext]_vars

\* The step shows the entry on top of the stack as it was saved.
Restored ==
    LET entry == Last(Clamped(viewer).nav_stack)
    IN  /\ viewer'.current_path = entry.file_path
        /\ viewer'.scroll_offset = entry.scroll_offset
        /\ viewer'.focused_link = entry.focused_link
        /\ viewer'.nav_stack = Front(viewer.nav_stack)

\* The step leaves the document and the stack as they are.
Kept ==
    /\ viewer'.current_path = viewer.current_path
    /\ viewer'.nav_stack = viewer.nav_stack

\* C30: Backspace with a non-empty history shows the most recently left
\* document with its saved scroll offset and focused link and takes it
\* off the stack, or leaves document and stack as they are.
C30_BackspaceRestoresOrKeeps ==
    [][(pc = "viewing" /\ viewer'.key = "Backspace" /\ viewer.nav_stack # <<>>)
          => (Restored \/ Kept)]_vars

\* C30: c.md, reached from a.md by Enter, is shown with an empty stack
\* after Backspace: the entry of a.md is gone and a.md is not shown.
C30_EntryDroppedUnrestored ==
    /\ pc = "viewing"
    /\ viewer.key = "Backspace"
    /\ viewer.current_path = serve_root \o <<N_c_md>>
    /\ viewer.nav_stack = <<>>
====
